---- MODULE Spec2Model ----
(***************************************************************************)
(* SciScroll backend (src/backend): the media variety tracker, the media   *)
(* resolution dispatcher, the response assembler and the transport         *)
(* handlers, as state machines.                                            *)
(*                                                                         *)
(* Text values are sequences of one-character strings, so that lower(),    *)
(* title(), replace() and slugify() are computed character by character.   *)
(***************************************************************************)
EXTENDS Integers, Sequences, FiniteSets, TLC

VARIABLES
    \* MediaVarietyTracker
    types,        \* self._types
    queue,        \* self._queue
    last,         \* self._last
    media_type,   \* next_type(): local media_type
    attempts,     \* next_type(): local attempts
    tpc,          \* position inside next_type(): "idle" or "loop"
    reshuffled,   \* the call in progress (or the last one) refilled the queue
    hist,         \* every value next_type() has returned, in order
    \* process state shared by the requests
    api_clients,  \* name -> "missing" | "unavailable" | "available"
    memes_cache,  \* ImgflipClient._memes_cache: whether it holds a non-empty
                  \* catalog; under SpecMemes the value it holds
    \* _resolve_media called on its own
    resolve_in,   \* the arguments of the last call
    resolve_out,  \* what the last call did
    \* a pure function (scoring, slugify, a validator) called on its own
    call_in,      \* the arguments of the call
    call_out,     \* what the call did
    \* one request through the transport or generate_content_blocks
    rpc,          \* "idle" | "plan" | "groups" | "nodes" | "done"
    body,         \* the request body the transport was handed
    engagement_score, \* generate_content_blocks: engagement_score (None before)
    strategy,     \* generate_content_blocks: strategy (None before)
    response,     \* what the handler answers with: None, or "result" for Result
    errors,       \* what validate_response / validate_initial_response reported
    entry,        \* "none" | "initial" | "generate" | "direct"
    visited,      \* set(visited_nodes or [])
    topic_label,  \* generate_content_blocks: topic_label
    orch,         \* what the orchestrator did for this request
    orch_calls,   \* generate_json calls made for this request
    glog,         \* per plan group consumed: the group, the collaborator's
                  \* behaviour and the outcome of _resolve_media
    blocks,       \* generate_content_blocks: blocks
    kept,         \* generate_content_blocks: next_nodes before the fallback
    ncands,       \* next-node candidates of the plan consumed so far
    next_nodes,   \* the next_nodes returned
    ret,          \* "none" | "failure" | "success" | "raised"
    status        \* HTTP status answered (0: none)

trackerVars == <<types, queue, last, media_type, attempts, tpc, reshuffled, hist>>

processVars == <<api_clients, memes_cache>>

resolveVars == <<resolve_in, resolve_out>>

callVars == <<call_in, call_out>>

requestVars ==
    <<rpc, entry, visited, topic_label, orch, orch_calls, glog, blocks, kept, ncands,
      next_nodes, ret, status, body, engagement_score, strategy, response, errors>>

vars == <<trackerVars, processVars, resolveVars, callVars, requestVars>>

None == "None"

Range(s) == {s[i] : i \in 1..Len(s)}

(***************************************************************************)
(* Bounds                                                                  *)
(***************************************************************************)
MaxKinds == 3     \* a tracker is configured with 1..MaxKinds kinds
MaxDraws == 7     \* next_type() calls followed per tracker
MaxPlanItems == 2 \* groups plus next-node candidates in one orchestrator plan
MaxTextLen == 3   \* slugify is handed every text of up to MaxTextLen characters
MaxThreads == 2   \* request threads inside ImgflipClient._get_memes at once
MaxCalls == 2     \* _get_memes calls followed per thread

(***************************************************************************)
(* Text: str methods and slugify (topic_graph.py), character by character  *)
(***************************************************************************)
LowerChars ==
    <<"a", "b", "c", "d", "e", "f", "g", "h", "i", "j", "k", "l", "m",
      "n", "o", "p", "q", "r", "s", "t", "u", "v", "w", "x", "y", "z">>

UpperChars ==
    <<"A", "B", "C", "D", "E", "F", "G", "H", "I", "J", "K", "L", "M",
      "N", "O", "P", "Q", "R", "S", "T", "U", "V", "W", "X", "Y", "Z">>

DigitChars == {"0", "1", "2", "3", "4", "5", "6", "7", "8", "9"}

IsUpper(c) == c \in Range(UpperChars)
IsLower(c) == c \in Range(LowerChars)
IsLetter(c) == IsUpper(c) \/ IsLower(c)
IsSpace(c) == c \in {" ", "\t", "\n"}                 \* \s
IsWord(c) == IsLetter(c) \/ c \in DigitChars \/ c = "_"   \* \w

LowerChar(c) ==
    IF IsUpper(c) THEN LowerChars[CHOOSE i \in 1..Len(UpperChars) : UpperChars[i] = c] ELSE c

UpperChar(c) ==
    IF IsLower(c) THEN UpperChars[CHOOSE i \in 1..Len(LowerChars) : LowerChars[i] = c] ELSE c

\* str.lower()
Lower(s) == [i \in 1..Len(s) |-> LowerChar(s[i])]

\* str.title(): a letter is upper-cased when it starts a run of letters and
\* lower-cased otherwise.
Title(s) ==
    [i \in 1..Len(s) |->
        IF ~IsLetter(s[i]) THEN s[i]
        ELSE IF i = 1 \/ ~IsLetter(s[i - 1]) THEN UpperChar(s[i])
        ELSE LowerChar(s[i])]

\* str.replace("-", " ")
HyphensToSpaces(s) == [i \in 1..Len(s) |-> IF s[i] = "-" THEN " " ELSE s[i]]

\* str.strip(chars) for a set of characters
LStrip(s, cs) ==
    IF \A i \in 1..Len(s) : s[i] \in cs THEN <<>>
    ELSE SubSeq(s, CHOOSE i \in 1..Len(s) :
                       s[i] \notin cs /\ \A j \in 1..(i - 1) : s[j] \in cs,
                Len(s))

RStrip(s, cs) ==
    IF \A i \in 1..Len(s) : s[i] \in cs THEN <<>>
    ELSE SubSeq(s, 1, CHOOSE i \in 1..Len(s) :
                          s[i] \notin cs /\ \A j \in (i + 1)..Len(s) : s[j] \in cs)

Strip(s, cs) == RStrip(LStrip(s, cs), cs)

Whitespace == {" ", "\t", "\n"}

\* re.sub(r"[^\w\s-]", "", s)
DropSpecials(s) == SelectSeq(s, LAMBDA c : IsWord(c) \/ IsSpace(c) \/ c = "-")

\* re.sub(r"[cs]+", "-", s): every maximal run of characters of cs becomes
\* one hyphen.
RunsTo(s, cs) ==
    LET marked == [i \in 1..Len(s) |->
                      [c |-> IF s[i] \in cs THEN "-" ELSE s[i],
                       first |-> s[i] \notin cs \/ i = 1 \/ s[i - 1] \notin cs]]
        firsts == SelectSeq(marked, LAMBDA m : m.first)
    IN  [i \in 1..Len(firsts) |-> firsts[i].c]

\* re.sub(r"[\s_]+", "-", s)
RunsToHyphen(s) == RunsTo(s, Whitespace \cup {"_"})

\* re.sub(r"-{2,}", "-", s)
SqueezeHyphens(s) == RunsTo(s, {"-"})

\* s.rsplit("-", 1)[0]: what precedes the last hyphen, or all of s without one.
NoRsplit(s) == s

BeforeLastHyphen(s) ==
    IF \E i \in 1..Len(s) : s[i] = "-"
    THEN SubSeq(s, 1, (CHOOSE i \in 1..Len(s) :
                          s[i] = "-" /\ \A j \in (i + 1)..Len(s) : s[j] # "-") - 1)
    ELSE s

MaxSlugLen == 80

slugify(text) ==
    IF Strip(text, Whitespace) = <<>> THEN <<>>
    ELSE LET s1 == Strip(Lower(text), Whitespace)
             s2 == DropSpecials(s1)
             s3 == RunsToHyphen(s2)
             s4 == SqueezeHyphens(s3)
             s5 == Strip(s4, {"-"})
         IN  IF Len(s5) > MaxSlugLen
             THEN BeforeLastHyphen(SubSeq(s5, 1, MaxSlugLen))
             ELSE s5

\* make_node(label, description=""): the node record of a label.
make_node(label, description) ==
    [id |-> slugify(label), label |-> label, description |-> description]

(***************************************************************************)
(* Media collaborators (api_clients.py) and _resolve_media                 *)
(***************************************************************************)
ClientNames ==
    {"claude", "unsplash", "reddit", "twitter", "wikipedia", "wikimedia", "imgflip", "xkcd"}

\* Clients whose is_available depends on credentials; the others return True.
CredentialClients == {"claude", "unsplash", "reddit", "twitter", "imgflip"}

\* create_api_clients() with every credential set.
AllAvailable == [n \in ClientNames |-> "available"]

\* create_api_clients() with no credential but the orchestrator's.
NoMediaCredentials ==
    [n \in ClientNames |->
        IF n \in CredentialClients \ {"claude"} THEN "unavailable" ELSE "available"]

\* create_api_clients() with no credential at all.
NoCredentials ==
    [n \in ClientNames |-> IF n \in CredentialClients THEN "unavailable" ELSE "available"]

\* A hand-built api_clients dict that holds the orchestrator only.
OnlyClaude == [n \in ClientNames |-> IF n = "claude" THEN "available" ELSE "missing"]

\* A hand-built api_clients dict without the orchestrator.
NoClaude == [n \in ClientNames |-> IF n = "claude" THEN "missing" ELSE "available"]

\* What create_api_clients() can build, and what a direct caller can pass.
ServerConfigs == {AllAvailable, NoMediaCredentials, NoCredentials}
DirectConfigs == {OnlyClaude, NoClaude}

ClientConfigs == ServerConfigs \cup DirectConfigs

\* A dispatch that hands every kind it does not know to the photo search.
UnknownKindToUnsplash(kind) ==
    CASE kind = "wikipedia_image" -> "wikipedia"
      [] kind = "wikimedia" -> "wikimedia"
      [] kind = "reddit" -> "reddit"
      [] kind = "xkcd" -> "xkcd"
      [] kind = "meme" -> "imgflip"
      [] kind = "tweet" -> "twitter"
      [] OTHER -> "unsplash"

\* The collaborator a media kind is dispatched to ("none" for an unknown kind).
MediaClient(kind) ==
    CASE kind = "unsplash" -> "unsplash"
      [] kind = "wikipedia_image" -> "wikipedia"
      [] kind = "wikimedia" -> "wikimedia"
      [] kind = "reddit" -> "reddit"
      [] kind = "xkcd" -> "xkcd"
      [] kind = "meme" -> "imgflip"
      [] kind = "tweet" -> "twitter"
      [] OTHER -> "none"

\* Python values a collaborator can hand back: None, a dict (with its "url"
\* entry: a str, None, a number, or no entry), an empty dict, a non-dict.
Value(k, urlt, url, source) == [k |-> k, urlt |-> urlt, url |-> url, source |-> source]

NoneValue == Value("none", "missing", <<>>, FALSE)
EmptyDict == Value("emptydict", "missing", <<>>, FALSE)
ListValue == Value("list", "missing", <<>>, FALSE)
Raises == Value("raise", "missing", <<>>, FALSE)

Marker == <<"p", "l", "a", "c", "e", "h", "o", "l", "d", "e", "r">>

UrlGood == <<"h", "/", "i", "m", "g">>
UrlMarked == <<"h", "/">> \o Marker \o <<".", "p">>
UrlMarkedUpper == <<"h", "/">> \o [i \in 1..Len(Marker) |-> UpperChar(Marker[i])]
UrlMarkedMixed == <<"P", "l", "a", "c", "e", "H", "o", "l", "d", "e", "R", "/", "x">>
UrlNearMarker == <<"h", "/", "p", "l", "a", "c", "e", "h", "o", "l", "d", "/", "e", "r">>

UrlPool == {UrlGood, UrlMarked, UrlMarkedUpper, UrlMarkedMixed, UrlNearMarker}

DictValues ==
    {Value("dict", "str", u, TRUE) : u \in UrlPool}
        \cup {Value("dict", "str", UrlGood, FALSE),
              Value("dict", "missing", <<>>, TRUE),
              Value("dict", "none", <<>>, TRUE),
              Value("dict", "int", <<>>, TRUE)}

\* What a collaborator's fetch does once it runs: raise, or return a value.
Behaviours == {Raises, NoneValue, EmptyDict, ListValue} \cup DictValues

Truthy(v) == v.k \in {"dict", "list"}
IsDict(v) == v.k \in {"dict", "emptydict"}

\* sub in s
Contains(s, sub) ==
    \E i \in 0..(Len(s) - Len(sub)) : SubSeq(s, i + 1, i + Len(sub)) = sub

\* len(query.split())
RECURSIVE WordCount(_)
WordCount(s) ==
    LET t == LStrip(s, Whitespace) IN
    IF t = <<>> THEN 0
    ELSE LET RECURSIVE SkipWord(_)
             SkipWord(r) == IF r # <<>> /\ ~IsSpace(Head(r)) THEN SkipWord(Tail(r)) ELSE r
         IN  1 + WordCount(SkipWord(t))

_clean_query_for_wikipedia(query, label) ==
    IF WordCount(query) <= 3 THEN query ELSE label

\* A media_request of the plan: None, {} , a non-dict, or a dict with an
\* optional "type", an optional "query" and optional caption texts.
Request(shape, type, hasquery, query, captions) ==
    [shape |-> shape, type |-> type, hasquery |-> hasquery, query |-> query,
     captions |-> captions]

Missing == "MISSING"

\* The fetch method of one collaborator, given its availability, whether the
\* meme catalog is cached, and what the external source does (beh).
\* search_photos, search_posts and search_tweets return None at once when
\* unavailable; get_meme does not look at is_available before it fetches the
\* catalog, and posts a caption only when available and given both texts.
CollaboratorFetch(name, st, cached, captions, beh) ==
    LET world == [raised |-> beh = Raises,
                  value |-> IF beh = Raises THEN NoneValue ELSE beh,
                  external |-> TRUE]
    IN  IF name \in {"unsplash", "reddit", "twitter"} /\ st = "unavailable"
        THEN [raised |-> FALSE, value |-> NoneValue, external |-> FALSE]
        ELSE IF name = "imgflip"
        THEN [world EXCEPT !.external = ~cached \/ (st = "available" /\ captions)]
        ELSE world

\* api_clients.get(name): truthy for any client object, whatever its
\* is_available says.
Dispatches(api, name) == name # "none" /\ api[name] # "missing"

\* The placeholder filter: result.get("url", "") then "placeholder" in url.lower().
PlaceholderCaseSensitive(url) == Contains(url, Marker)

IsPlaceholder(url) == Contains(Lower(url), Marker)

\* How often _resolve_media invokes the fetch of the collaborator it
\* dispatched to: the branch calls it once, and the except clause only logs.
RetryOnFailure(call) == IF call.raised \/ call.value = NoneValue THEN 2 ELSE 1

FetchAttempts(call) == 1

\* _resolve_media(media_request, topic_label, api_clients).
\* raised: an exception leaves the function; ret: the value returned;
\* client: the collaborator whose fetch was invoked ("none": no fetch);
\* fetches: how often it was invoked; external: the fetch reached the
\* external source; got: what the fetch returned; sent: the query handed to
\* the collaborator.
_resolve_media(req, label, api, cached, beh) ==
    LET absent == [raised |-> FALSE, ret |-> NoneValue, client |-> "none", fetches |-> 0,
                   external |-> FALSE, got |-> NoneValue, sent |-> <<>>]
    IN
    IF req.shape # "dict" THEN absent
    ELSE
    LET mtype == IF req.type = Missing THEN "unsplash" ELSE req.type
        query == IF req.hasquery THEN req.query ELSE label
        name == MediaClient(mtype)
    IN
    IF ~Dispatches(api, name) THEN absent
    ELSE
    LET call == CollaboratorFetch(name, api[name], cached, req.captions, beh)
        result == IF call.raised THEN NoneValue ELSE call.value
        sent == IF name = "wikipedia" THEN _clean_query_for_wikipedia(query, label)
                ELSE query
        out == [raised |-> FALSE, ret |-> result, client |-> name,
                fetches |-> FetchAttempts(call),
                external |-> call.external, got |-> result, sent |-> sent]
    IN
    IF Truthy(result) /\ IsDict(result)
    THEN IF result.urlt \in {"none", "int"}
         THEN [out EXCEPT !.raised = TRUE, !.ret = NoneValue]
         ELSE IF IsPlaceholder(IF result.urlt = "missing" THEN <<>> ELSE result.url)
         THEN [out EXCEPT !.ret = NoneValue]
         ELSE out
    ELSE out

(***************************************************************************)
(* MediaVarietyTracker                                                     *)
(***************************************************************************)
MEDIA_TYPES ==
    <<"unsplash", "wikipedia_image", "wikimedia", "reddit", "xkcd", "meme", "tweet">>

\* The kinds a tracker of this model is configured from: a prefix of
\* MEDIA_TYPES (all of it from MaxKinds = 7 on).
KindPool ==
    {MEDIA_TYPES[i] : i \in 1..(IF MaxKinds < Len(MEDIA_TYPES) THEN MaxKinds ELSE Len(MEDIA_TYPES))}

\* Every arrangement of a non-empty list of distinct kinds.
Arrangements(S) ==
    {s \in UNION {[1..n -> S] : n \in 1..Cardinality(S)} :
        \A i, j \in 1..Len(s) : i # j => s[i] # s[j]}

\* random.shuffle(list(self._types)): any permutation of the configured list.
ShufflesWithReplacement(ts) == [1..Len(ts) -> Range(ts)]

Shuffles(ts) ==
    {s \in [1..Len(ts) -> Range(ts)] :
        \A i \in 1..Len(ts) : \E j \in 1..Len(ts) : s[j] = ts[i]}

\* No tracker in use.
TrackerIdle ==
    /\ types = <<>>
    /\ queue = <<>>
    /\ last = None
    /\ media_type = None
    /\ attempts = 0
    /\ tpc = "off"
    /\ reshuffled = FALSE
    /\ hist = <<>>

\* _resolve_media not called.
ResolveIdle ==
    /\ resolve_in = [called |-> FALSE]
    /\ resolve_out = [called |-> FALSE]

\* No pure function called on its own.
CallIdle ==
    /\ call_in = [called |-> FALSE]
    /\ call_out = [called |-> FALSE]

\* No request in progress.
RequestIdle ==
    /\ rpc = "idle"
    /\ body = None
    /\ engagement_score = None
    /\ strategy = None
    /\ response = None
    /\ errors = <<>>
    /\ entry = "none"
    /\ visited = {}
    /\ topic_label = <<>>
    /\ orch = "notcalled"
    /\ orch_calls = 0
    /\ glog = <<>>
    /\ blocks = <<>>
    /\ kept = <<>>
    /\ ncands = 0
    /\ next_nodes = <<>>
    /\ ret = "none"
    /\ status = 0

\* The clients play no part.
ProcessIdle ==
    /\ api_clients = AllAvailable
    /\ memes_cache = FALSE

\* The clients are created once; the meme catalog is not cached yet.
ProcessInit ==
    /\ api_clients \in ClientConfigs
    /\ memes_cache = FALSE

\* __init__: _types = list(media_types or MEDIA_TYPES), _queue = deque(_types),
\* _last = None.
TrackerInit ==
    /\ types \in Arrangements(KindPool)
    /\ queue = types
    /\ last = None
    /\ media_type = None
    /\ attempts = 0
    /\ tpc = "idle"
    /\ reshuffled = FALSE
    /\ hist = <<>>

\* The while condition of next_type().
WhileCondNoGuards(mt, lst, ts, att) == mt = lst

WhileCond(mt, lst, ts, att) ==
    mt = lst /\ Len(ts) > 1 /\ att < Len(ts)

\* next_type(), up to the loop: refill an empty queue with a shuffle, popleft.
NextTypeEnter ==
    /\ tpc = "idle"
    /\ Len(hist) < MaxDraws
    /\ \E q0 \in (IF queue = <<>> THEN Shuffles(types) ELSE {queue}) :
          /\ media_type' = Head(q0)
          /\ queue' = Tail(q0)
    /\ reshuffled' = (queue = <<>>)
    /\ attempts' = 0
    /\ tpc' = "loop"
    /\ UNCHANGED <<types, last, hist>>
    /\ UNCHANGED <<processVars, resolveVars, callVars, requestVars>>

\* self._queue.append(media_type)
RequeuedAtFront(q, mt) == <<mt>> \o q

Requeued(q, mt) == Append(q, mt)

\* One iteration of the loop: requeue the draw and redraw.
NextTypeRequeue ==
    /\ tpc = "loop"
    /\ WhileCond(media_type, last, types, attempts)
    /\ LET q1 == Requeued(queue, media_type) IN
          /\ media_type' = Head(q1)
          /\ queue' = Tail(q1)
    /\ attempts' = attempts + 1
    /\ UNCHANGED <<types, last, tpc, reshuffled, hist>>
    /\ UNCHANGED <<processVars, resolveVars, callVars, requestVars>>

\* Loop exit: self._last = media_type; return media_type.
NextTypeReturn ==
    /\ tpc = "loop"
    /\ ~WhileCond(media_type, last, types, attempts)
    /\ last' = media_type
    /\ hist' = Append(hist, media_type)
    /\ tpc' = "idle"
    /\ UNCHANGED <<types, queue, media_type, attempts, reshuffled>>
    /\ UNCHANGED <<processVars, resolveVars, callVars, requestVars>>

TrackerNext == NextTypeEnter \/ NextTypeRequeue \/ NextTypeReturn

\* A tracker alone.
TrackerStart == TrackerInit /\ ProcessIdle /\ ResolveIdle /\ CallIdle /\ RequestIdle

SpecTracker == TrackerStart /\ [][TrackerNext]_vars

(***************************************************************************)
(* _resolve_media called on its own                                        *)
(***************************************************************************)
TopicLabelC == <<"C">>

QueryShort == <<"a", " ", "b">>
QueryLong == <<"w", "h", "y", " ", "a", " ", "b", " ", "c">>

MediaRequests ==
    {Request("none", Missing, FALSE, <<>>, FALSE),
     Request("emptydict", Missing, FALSE, <<>>, FALSE),
     Request("text", Missing, FALSE, <<>>, FALSE)}
    \cup {Request("dict", t, FALSE, <<>>, c) :
              t \in Range(MEDIA_TYPES) \cup {"gif", Missing}, c \in BOOLEAN}
    \cup {Request("dict", t, TRUE, q, c) :
              t \in Range(MEDIA_TYPES) \cup {"gif", Missing},
              q \in {QueryShort, QueryLong}, c \in BOOLEAN}

\* With a cached catalog get_meme always has a template to return.
Possible(req, cached, beh) ==
    ~(req.shape = "dict" /\ req.type = "meme" /\ cached /\ beh = NoneValue)

\* get_meme caches the catalog it fetched.
CacheAfter(cached, out) ==
    cached \/ (out.client = "imgflip" /\ out.got # NoneValue)

\* The arguments of one call, and the process state it runs in: any client
\* configuration, the meme catalog cached or not.
ResolveInit ==
    /\ api_clients \in ClientConfigs
    /\ memes_cache \in BOOLEAN
    /\ \E req \in MediaRequests, beh \in Behaviours :
          /\ Possible(req, memes_cache, beh)
          /\ resolve_in = [called |-> TRUE, req |-> req, beh |-> beh]
    /\ resolve_out = [called |-> FALSE]

ResolveCall ==
    /\ resolve_in.called
    /\ ~resolve_out.called
    /\ LET out == _resolve_media(resolve_in.req, TopicLabelC, api_clients, memes_cache,
                                 resolve_in.beh) IN
          /\ resolve_out' = [called |-> TRUE] @@ out
          /\ memes_cache' = CacheAfter(memes_cache, out)
    /\ UNCHANGED <<api_clients, resolve_in, trackerVars, callVars, requestVars>>

\* One call of _resolve_media alone.
ResolveStart == TrackerIdle /\ ResolveInit /\ CallIdle /\ RequestIdle

SpecResolve == ResolveStart /\ [][ResolveCall]_vars

(***************************************************************************)
(* slugify called on its own                                               *)
(***************************************************************************)
\* The characters the texts of this specification are made of: a lower-case
\* and an upper-case letter, whitespace, a hyphen, an underscore and a
\* character slugify drops.
SlugAlphabet == {"a", "B", " ", "-", "_", "!"}

Texts(n) == UNION {[1..k -> SlugAlphabet] : k \in 0..n}

Repeat(c, n) == [i \in 1..n |-> c]

\* Texts around the length limit: a long run of letters followed by a short
\* text, so that the cut falls before, on and after a hyphen.
LongTexts ==
    {Repeat("a", n) \o t : n \in (MaxSlugLen - 2)..(MaxSlugLen + 1), t \in Texts(MaxTextLen - 1)}
        \cup {Repeat("B", 200), Repeat(" ", MaxSlugLen + 1),
              [i \in 1..120 |-> IF i % 3 = 0 THEN " " ELSE "a"]}

SlugInputs == Texts(MaxTextLen) \cup LongTexts

SlugInit ==
    /\ call_in \in {[called |-> TRUE, fn |-> "slugify", arg |-> t] : t \in SlugInputs}
    /\ call_out = [called |-> FALSE]

\* slugify(text)
SlugCall ==
    /\ call_in.fn = "slugify"
    /\ ~call_out.called
    /\ call_out' = [called |-> TRUE, times |-> 1, slug |-> slugify(call_in.arg),
                    again |-> <<>>]
    /\ UNCHANGED <<call_in, trackerVars, processVars, resolveVars, requestVars>>

\* slugify applied to the slug it returned.
SlugAgain ==
    /\ call_in.fn = "slugify"
    /\ call_out.called
    /\ call_out.times = 1
    /\ call_out' = [call_out EXCEPT !.times = 2, !.again = slugify(call_out.slug)]
    /\ UNCHANGED <<call_in, trackerVars, processVars, resolveVars, requestVars>>

SlugNext == SlugCall \/ SlugAgain

SlugStart == TrackerIdle /\ ProcessIdle /\ ResolveIdle /\ SlugInit /\ RequestIdle

SpecSlug == SlugStart /\ [][SlugNext]_vars

(***************************************************************************)
(* Telemetry: sanitize_time_data, compute_engagement_score, select_strategy *)
(***************************************************************************)
\* A Python value found in a field of time_data: the key is absent, None, an
\* int n, a bool (n = 0, 1), a float (n tenths), the floats inf and nan, a
\* str that is a decimal integer literal for n, any other str, a list.
PyVal(k, n) == [k |-> k, n |-> n]

Absent == PyVal("absent", 0)
PyNone == PyVal("none", 0)
PyInt(n) == PyVal("int", n)
PyFloatTenths(n) == PyVal("float", n)
PyInf == PyVal("inf", 0)
PyNan == PyVal("nan", 0)
PyNumStr(n) == PyVal("numstr", n)
PyStr == PyVal("str", 0)
PyBool(n) == PyVal("bool", n)
PyList == PyVal("list", 0)

\* int(val): the value, or the exception raised.
IntOf(v) ==
    CASE v.k \in {"int", "bool", "numstr"} -> [raised |-> "no", n |-> v.n]
      [] v.k = "float" ->
            [raised |-> "no",
             n |-> IF v.n >= 0 THEN v.n \div 10 ELSE -((-v.n) \div 10)]
      [] v.k = "inf" -> [raised |-> "OverflowError", n |-> 0]
      [] v.k \in {"nan", "str"} -> [raised |-> "ValueError", n |-> 0]
      [] OTHER -> [raised |-> "TypeError", n |-> 0]

NumericKeys ==
    {"total_time_on_node_ms", "scroll_events", "go_deeper_clicks",
     "sections_in_current_node", "time_per_section_ms"}

defaults ==
    [current_node_id |-> <<>>,
     total_time_on_node_ms |-> 0,
     scroll_events |-> 0,
     go_deeper_clicks |-> 0,
     sections_in_current_node |-> 1,
     time_per_section_ms |-> 0]

\* time_data as handed in: None, a str, a list, or a dict d with d[key] the
\* value under each key (Absent: no such key) and cid the text under
\* "current_node_id" when that is a str.
TimeData(k, d, cid) == [k |-> k, d |-> d, cid |-> cid]

NoFields == [key \in NumericKeys \cup {"current_node_id"} |-> Absent]

TimeDataNone == TimeData("none", <<>>, <<>>)
TimeDataStr == TimeData("str", <<>>, <<>>)
TimeDataList == TimeData("list", <<>>, <<>>)

\* One numeric field: except (ValueError, TypeError) catches what int() raises,
\* but not OverflowError.
Catches(raised) == raised \in {"ValueError", "TypeError"}

\* max(0, val)
ClampAtZero(n) == IF n > 0 THEN n ELSE 0

\* The loop body for one numeric key: [raised, n].
SanitizeField(v, default_val) ==
    IF v.k \in {"absent", "none"} THEN [raised |-> FALSE, n |-> ClampAtZero(default_val)]
    ELSE LET c == IntOf(v) IN
         IF c.raised = "no" THEN [raised |-> FALSE, n |-> ClampAtZero(c.n)]
         ELSE IF Catches(c.raised) THEN [raised |-> FALSE, n |-> ClampAtZero(default_val)]
         ELSE [raised |-> TRUE, n |-> 0]

\* str(val) if val is not None else "", for the values this model hands in
\* under "current_node_id": no key, None, a str, a one-digit int.
SanitizeNodeId(v, cid) ==
    CASE v.k \in {"absent", "none"} -> <<>>
      [] v.k = "str" -> cid
      [] OTHER -> <<(<<"0", "1", "2", "3", "4", "5", "6", "7", "8", "9">>)[(v.n % 10) + 1]>>

\* sanitize_time_data(time_data): [raised, value]; value has the six keys.
sanitize_time_data(time_data) ==
    IF time_data.k # "dict" THEN [raised |-> FALSE, value |-> defaults]
    ELSE
    LET f(key) == SanitizeField(time_data.d[key], defaults[key])
        sections == f("sections_in_current_node").n
    IN  IF \E key \in NumericKeys : f(key).raised
        THEN [raised |-> TRUE, value |-> None]
        ELSE [raised |-> FALSE,
              value |->
                [current_node_id |->
                     SanitizeNodeId(time_data.d["current_node_id"], time_data.cid),
                 total_time_on_node_ms |-> f("total_time_on_node_ms").n,
                 scroll_events |-> f("scroll_events").n,
                 go_deeper_clicks |-> f("go_deeper_clicks").n,
                 sections_in_current_node |-> IF sections < 1 THEN 1 ELSE sections,
                 time_per_section_ms |-> f("time_per_section_ms").n]]

\* The dict a sanitized record is, as a time_data argument.
AsTimeData(td) ==
    TimeData("dict",
             [key \in NumericKeys \cup {"current_node_id"} |->
                 IF key = "current_node_id" THEN PyStr ELSE PyInt(td[key])],
             td.current_node_id)

\* A score, in ten-thousandths: units + num/den of them, 0 <= num < den.
Score(units, num, den) == [units |-> units, num |-> num, den |-> den]

ScoreZero == Score(0, 0, 1)

Min(a, b) == IF a < b THEN a ELSE b

\* The weighted sum before clamping and rounding, exactly:
\*   3000 * min(1, t / 60000) + 2000 * min(1, scroll / 10)
\*   + 3000 * min(1, clicks * 0.5) + 2000 * variance_factor
\* with variance_factor = min(1, per / (t / sections)) when t > 0, else 0.
WeightedSum(td) ==
    LET t == td.total_time_on_node_ms
        sections == td.sections_in_current_node
        per == td.time_per_section_ms
        a == Min(60000, t)                       \* 3000 * time_factor = a / 20
        scrollPart == Min(2000, 200 * td.scroll_events)
        clickPart == Min(3000, 1500 * td.go_deeper_clicks)
        m == IF t > 0 /\ sections > 0 THEN Min(t, per * sections) ELSE 0
        d == IF t > 0 THEN t ELSE 1              \* 2000 * variance_factor = 2000 * m / d
        whole == (a \div 20) + scrollPart + clickPart + ((2000 * m) \div d)
        fracNum == (a % 20) * d + 20 * ((2000 * m) % d)
        fracDen == 20 * d
    IN  Score(whole + (fracNum \div fracDen), fracNum % fracDen, fracDen)

\* max(0.0, min(1.0, score))
Clamp(s) ==
    IF s.units >= 10000 THEN Score(10000, 0, 1)
    ELSE IF s.units < 0 THEN ScoreZero
    ELSE s

\* round(x, 4): to the nearest ten-thousandth.  Exactly halfway the binary
\* float decides; no sample of TelemetryPool is such a tie, and on all of them
\* this is the value the code returns.
NoRounding(s) == s

Round4(s) ==
    LET up == \/ 2 * s.num > s.den
              \/ 2 * s.num = s.den /\ s.units % 2 = 1
    IN  Score(IF up THEN s.units + 1 ELSE s.units, 0, 1)

\* compute_engagement_score(time_data): [raised, td, score].
compute_engagement_score(time_data) ==
    LET clean == sanitize_time_data(time_data) IN
    IF clean.raised THEN [raised |-> TRUE, td |-> None, score |-> None]
    ELSE [raised |-> FALSE, td |-> clean.value,
          score |-> Round4(Clamp(WeightedSum(clean.value)))]

\* engagement_score >= 0.65, engagement_score >= 0.35: a score is units + a
\* fraction of one ten-thousandth, so it reaches 0.65 exactly when its units
\* reach 6500.
BoundariesToLowerTier(score) ==
    IF score.units > 6500 \/ (score.units = 6500 /\ score.num > 0) THEN "deeper"
    ELSE IF score.units > 3500 \/ (score.units = 3500 /\ score.num > 0) THEN "branch"
    ELSE "pivot"

select_strategy(score) ==
    IF score.units >= 6500 THEN "deeper"
    ELSE IF score.units >= 3500 THEN "branch"
    ELSE "pivot"

VALID_STRATEGIES == {"deeper", "branch", "pivot"}

\* The telemetry handed to the scorer: what each field can hold.
TotalTimePool ==
    {Absent, PyNone, PyInt(0), PyInt(1000), PyInt(2000), PyInt(12345), PyInt(60000),
     PyInt(120000), PyInt(-5000), PyFloatTenths(50007), PyStr, PyNumStr(60000),
     PyInf, PyNan}
ScrollPool == {Absent, PyInt(0), PyInt(3), PyInt(12), PyInt(-1), PyStr}
ClickPool == {Absent, PyInt(0), PyInt(1), PyInt(5), PyBool(1), PyList}
SectionsPool == {Absent, PyNone, PyInt(0), PyInt(1), PyInt(3), PyInt(4)}
PerSectionPool == {Absent, PyInt(0), PyInt(1000), PyInt(4116), PyInt(15000), PyInt(-1)}

FieldPool(key) ==
    CASE key = "total_time_on_node_ms" -> TotalTimePool
      [] key = "scroll_events" -> ScrollPool
      [] key = "go_deeper_clicks" -> ClickPool
      [] key = "sections_in_current_node" -> SectionsPool
      [] key = "time_per_section_ms" -> PerSectionPool
      [] OTHER -> {Absent}

Fields(cid, total, scroll, clicks, sections, per) ==
    [key \in NumericKeys \cup {"current_node_id"} |->
        CASE key = "current_node_id" -> cid
          [] key = "total_time_on_node_ms" -> total
          [] key = "scroll_events" -> scroll
          [] key = "go_deeper_clicks" -> clicks
          [] key = "sections_in_current_node" -> sections
          [] OTHER -> per]

TelemetryDicts ==
    {TimeData("dict", Fields(Absent, total, scroll, clicks, sections, per), <<>>) :
        total \in TotalTimePool, scroll \in ScrollPool, clicks \in ClickPool,
        sections \in SectionsPool, per \in PerSectionPool}

NodeIdCases ==
    {TimeData("dict", [NoFields EXCEPT !["current_node_id"] = v], <<"n", "1">>) :
        v \in {PyNone, PyStr, PyInt(7)}}

TelemetryPool ==
    {TimeDataNone, TimeDataStr, TimeDataList} \cup TelemetryDicts \cup NodeIdCases

\* Scores handed to select_strategy directly, to a millionth.
ScorePool ==
    {Score(u, n, 100) :
        u \in {0, 1, 3499, 3500, 3501, 6499, 6500, 6501, 9999}, n \in {0, 50, 99}}
        \cup {Score(10000, 0, 1)}

\* The four raw inputs of the score.
RawInputs ==
    {"total_time_on_node_ms", "scroll_events", "go_deeper_clicks", "time_per_section_ms"}

\* b is a with one raw input, a number in both, raised.
RaisedOneInput(a, b) ==
    /\ a.k = "dict" /\ b.k = "dict"
    /\ \E key \in RawInputs :
          /\ a.d[key].k = "int" /\ b.d[key].k = "int"
          /\ a.d[key].n < b.d[key].n
          /\ b = [a EXCEPT !.d[key] = b.d[key]]

ScoreInit ==
    /\ call_in \in
          {[called |-> TRUE, fn |-> "compute_engagement_score", arg |-> td] :
              td \in TelemetryPool}
          \cup {[called |-> TRUE, fn |-> "select_strategy", arg |-> sc] : sc \in ScorePool}
    /\ call_out = [called |-> FALSE]

\* compute_engagement_score(time_data), then select_strategy on its score, as
\* generate() chains them.
ScoreCall ==
    /\ call_in.fn = "compute_engagement_score"
    /\ ~call_out.called
    /\ LET r == compute_engagement_score(call_in.arg) IN
          call_out' = [called |-> TRUE, raised |-> r.raised, td |-> r.td,
                       score |-> r.score,
                       strategy |-> IF r.raised THEN None ELSE select_strategy(r.score)]
    /\ UNCHANGED <<call_in, trackerVars, processVars, resolveVars, requestVars>>

\* select_strategy(engagement_score) on a score of the caller's.
SelectCall ==
    /\ call_in.fn = "select_strategy"
    /\ ~call_out.called
    /\ call_out' = [called |-> TRUE, raised |-> FALSE, td |-> None,
                    score |-> call_in.arg, strategy |-> select_strategy(call_in.arg)]
    /\ UNCHANGED <<call_in, trackerVars, processVars, resolveVars, requestVars>>

\* The next sample scored is the last one with one raw input raised.
ScoreRaised ==
    /\ call_in.fn = "compute_engagement_score"
    /\ call_out.called
    /\ call_in.arg.k = "dict"
    /\ \E key \in RawInputs : \E v \in FieldPool(key) :
          LET td == [call_in.arg EXCEPT !.d[key] = v] IN
          /\ RaisedOneInput(call_in.arg, td)
          /\ call_in' = [call_in EXCEPT !.arg = td]
          /\ LET r == compute_engagement_score(td) IN
                call_out' = [called |-> TRUE, raised |-> r.raised, td |-> r.td,
                             score |-> r.score,
                             strategy |-> IF r.raised THEN None
                                          ELSE select_strategy(r.score)]
    /\ UNCHANGED <<trackerVars, processVars, resolveVars, requestVars>>

ScoreNext == ScoreCall \/ SelectCall \/ ScoreRaised

ScoreStart == TrackerIdle /\ ProcessIdle /\ ResolveIdle /\ ScoreInit /\ RequestIdle

SpecScore == ScoreStart /\ [][ScoreNext]_vars

(***************************************************************************)
(* Validation: validate_content_block, validate_response,                  *)
(* validate_initial_response                                               *)
(***************************************************************************)
VALID_GROUP_ROLES_TEXT == {"explanation", "caption", "context", "funfact"}
VALID_GROUP_ROLES_MEDIA == {"visual", "diagram", "discussion", "humor", "social"}

\* required = ["id", "type", "content", "group_id", "group_role"]
RequiredBlockKeys == <<"id", "type", "content", "group_id", "group_role">>

\* A block handed to the validator: a dict with its set of keys and the
\* values under "type", "group_role" (a str or None) and "media", or a value
\* that is not a dict.
Block(keys, type, group_role, media) ==
    [keys |-> keys, type |-> type, group_role |-> group_role, media |-> media]

NotADict == [k |-> "list"]

IsBlockDict(block) == "keys" \in DOMAIN block

\* block.get("group_role") and block["group_role"] not in roles
InvalidRole(block, roles) ==
    /\ "group_role" \in block.keys
    /\ block.group_role \notin {None, ""}
    /\ block.group_role \notin roles

\* The errors of the "media" payload of a media block.
UrlNotRequired(block) ==
    IF "media" \notin block.keys THEN <<"Media block missing 'media' key">>
    ELSE IF ~IsDict(block.media) THEN <<"Media block 'media' is not a dict">>
    ELSE IF ~(block.media.k = "dict" /\ block.media.source)
         THEN <<"Media block missing 'source'">> ELSE <<>>

MediaErrors(block) ==
    IF "media" \notin block.keys THEN <<"Media block missing 'media' key">>
    ELSE IF ~IsDict(block.media) THEN <<"Media block 'media' is not a dict">>
    ELSE (IF ~(block.media.k = "dict" /\ block.media.urlt # "missing")
          THEN <<"Media block missing 'url'">> ELSE <<>>)
         \o (IF ~(block.media.k = "dict" /\ block.media.source)
             THEN <<"Media block missing 'source'">> ELSE <<>>)

\* validate_content_block(block): the list of error strings.
validate_content_block(block) ==
    IF ~IsBlockDict(block) THEN <<"Block is not a dict">>
    ELSE
    LET missing == SelectSeq(RequiredBlockKeys, LAMBDA key : key \notin block.keys)
        missingErrors == [i \in 1..Len(missing) |-> "Missing key: " \o missing[i]]
    IN  missingErrors \o
        (IF "type" \notin block.keys THEN <<>>
         ELSE IF block.type = "text"
         THEN IF InvalidRole(block, VALID_GROUP_ROLES_TEXT)
              THEN <<"Invalid text group_role">> ELSE <<>>
         ELSE IF block.type \in Range(MEDIA_TYPES)
         THEN (IF InvalidRole(block, VALID_GROUP_ROLES_MEDIA)
               THEN <<"Invalid media group_role">> ELSE <<>>)
              \o MediaErrors(block)
         ELSE <<"Unknown block type">>)

\* Blocks handed to validate_content_block on its own.
BlockKeyCases ==
    {Range(RequiredBlockKeys)} \cup {Range(RequiredBlockKeys) \ {key} :
                                         key \in Range(RequiredBlockKeys)}
        \cup {{"id", "type"}}

BlockTypePool == {"text", "unsplash", "tweet", "gif"}

BlockRolePool == {"explanation", "funfact", "visual", "social", "INVALID", "", None}

\* "media": no such key (Absent), or a value under it.
BlockMediaPool ==
    {Absent, NoneValue, ListValue, EmptyDict,
     Value("dict", "str", UrlGood, TRUE),
     Value("dict", "str", UrlGood, FALSE),
     Value("dict", "missing", <<>>, TRUE)}

BlockPool ==
    {NotADict} \cup
    {Block(IF media = Absent THEN keys ELSE keys \cup {"media"}, type, role, media) :
        keys \in BlockKeyCases, type \in BlockTypePool, role \in BlockRolePool,
        media \in BlockMediaPool}

ValidateInit ==
    /\ call_in \in {[called |-> TRUE, fn |-> "validate_content_block", arg |-> b] :
                       b \in BlockPool}
    /\ call_out = [called |-> FALSE]

ValidateCall ==
    /\ call_in.fn = "validate_content_block"
    /\ ~call_out.called
    /\ call_out' = [called |-> TRUE, errors |-> validate_content_block(call_in.arg)]
    /\ UNCHANGED <<call_in, trackerVars, processVars, resolveVars, requestVars>>

ValidateStart == TrackerIdle /\ ProcessIdle /\ ResolveIdle /\ ValidateInit /\ RequestIdle

SpecValidate == ValidateStart /\ [][ValidateCall]_vars

(***************************************************************************)
(* The orchestrator, generate_content_blocks and the transport handlers    *)
(***************************************************************************)
\* What generate_json can return: None, a non-dict, {}, a dict without
\* "groups", a dict with "groups".
OrchResponses == {"none", "list", "emptydict", "nogroups", "plan"}

\* if result and isinstance(result, dict) and "groups" in result
OrchAcceptsAnyDict(resp) == resp \in {"plan", "nogroups"}

\* Whatever the orchestrator answered is taken for a plan.
OrchAcceptsAnything(resp) == resp \in OrchResponses

OrchAccepts(resp) == resp = "plan"

\* Topics a caller asks for, and the visited lists a caller supplies.
TextAB == <<"A", " ", "b">>
TextSlugAB == <<"a", "-", "b">>
TextC == <<"C">>
TextSlugC == <<"c">>
TextBang == <<"!">>

DeepDive == <<" ", "D", "e", "e", "p", " ", "D", "i", "v", "e">>
Beyond == <<"B", "e", "y", "o", "n", "d", " ">>

TopicPool == {TextC, <<"a", " ", "B">>}

VisitedPool ==
    {{}, {TextSlugAB}, {TextSlugAB, TextSlugC},
     {TextSlugC, slugify(TextC \o DeepDive)}}

\* topic_id.replace("-", " ").title()
LabelOf(topic_id) == Title(HyphensToSpaces(topic_id))

\* One group of the plan.
Group(text, req, role_text, role_media) ==
    [text |-> text, req |-> req, role_text |-> role_text, role_media |-> role_media]

ReqNone == Request("none", Missing, FALSE, <<>>, FALSE)
ReqEmpty == Request("emptydict", Missing, FALSE, <<>>, FALSE)
ReqText == Request("text", Missing, FALSE, <<>>, FALSE)
ReqUnsplash == Request("dict", "unsplash", FALSE, <<>>, FALSE)
ReqMeme == Request("dict", "meme", FALSE, <<>>, TRUE)
ReqGif == Request("dict", "gif", FALSE, <<>>, FALSE)
ReqNoType == Request("dict", Missing, FALSE, <<>>, FALSE)

GoodResult == Value("dict", "str", UrlGood, TRUE)
MarkedResult == Value("dict", "str", UrlMarkedUpper, TRUE)
NoUrlResult == Value("dict", "none", <<>>, TRUE)

\* The groups a plan of this model is made of, each with what its
\* collaborator does: text-only groups with every kind of role tag, groups
\* with text and media, media-only groups over the request shapes and the
\* collaborator behaviours.
GroupCases ==
    {<<Group("text", ReqNone, r, Missing), NoneValue>> :
        r \in {Missing, "caption", "bogus"}}
    \cup {<<Group(t, ReqNone, Missing, Missing), NoneValue>> : t \in {"none", "empty"}}
    \cup {<<Group("text", ReqUnsplash, Missing, r), GoodResult>> :
        r \in {Missing, "humor", "bogus"}}
    \cup {<<Group("text", ReqUnsplash, Missing, Missing), b>> :
        b \in {Raises, MarkedResult}}
    \cup {<<Group("none", ReqUnsplash, Missing, Missing), b>> :
        b \in {NoneValue, EmptyDict, NoUrlResult, Value("dict", "str", UrlMarked, TRUE)}}
    \cup {<<Group("none", q, Missing, Missing), GoodResult>> :
        q \in {ReqMeme, ReqGif, ReqNoType, ReqEmpty, ReqText}}
    \cup {<<Group("none", ReqMeme, Missing, Missing), Value("dict", "str", UrlMarkedMixed, TRUE)>>}

TextBlock(gid, g) ==
    [type |-> "text", group_id |-> gid,
     group_role |-> IF g.role_text = Missing THEN "explanation" ELSE g.role_text,
     hasmedia |-> FALSE, media |-> NoneValue]

\* A media block given an identifier of its own instead of its group's.
MediaBlockOwnGroup(gid, g, media_data) ==
    [type |-> IF g.req.type = Missing THEN "unsplash" ELSE g.req.type,
     group_id |-> gid + MaxPlanItems,
     group_role |-> IF g.role_media = Missing THEN "visual" ELSE g.role_media,
     hasmedia |-> TRUE, media |-> media_data]

MediaBlock(gid, g, media_data) ==
    [type |-> IF g.req.type = Missing THEN "unsplash" ELSE g.req.type,
     group_id |-> gid,
     group_role |-> IF g.role_media = Missing THEN "visual" ELSE g.role_media,
     hasmedia |-> TRUE, media |-> media_data]

\* A next_nodes candidate of the plan: a bare string, a dict with an optional
\* "label" and an optional "id", or anything else.
Cand(shape, haslabel, label, hasid, id) ==
    [shape |-> shape, haslabel |-> haslabel, label |-> label, hasid |-> hasid, id |-> id]

CandPool ==
    {Cand("str", FALSE, <<>>, TRUE, t) : t \in {TextSlugAB, TextAB, <<>>}}
    \cup {Cand("dict", TRUE, TextAB, FALSE, <<>>),
          Cand("dict", TRUE, TextSlugAB, TRUE, TextSlugC),
          Cand("dict", FALSE, <<>>, TRUE, TextSlugAB),
          Cand("dict", FALSE, <<>>, TRUE, TextSlugC),
          Cand("dict", TRUE, TextBang, TRUE, TextSlugC),
          Cand("dict", FALSE, <<>>, FALSE, <<>>),
          Cand("other", FALSE, <<>>, FALSE, <<>>)}

\* The body of the loop over the plan's next_nodes: what one candidate adds.
NodesFrom(c, vis) ==
    IF c.shape = "str"
    THEN IF c.id \notin vis THEN <<make_node(LabelOf(c.id), <<>>)>> ELSE <<>>
    ELSE IF c.shape = "dict"
    THEN LET label == IF c.haslabel THEN c.label ELSE <<>>
             nid == IF label # <<>> THEN slugify(label)
                    ELSE IF c.hasid THEN c.id ELSE <<>>
         IN  IF nid # <<>> /\ nid \notin vis
             THEN <<[id |-> nid,
                     label |-> IF label # <<>> THEN label ELSE LabelOf(nid),
                     description |-> <<>>]>>
             ELSE <<>>
    ELSE <<>>

Explore == <<"E", "x", "p", "l", "o", "r", "e", " ">>
InGreaterDetail ==
    <<" ", "i", "n", " ", "g", "r", "e", "a", "t", "e", "r", " ", "d", "e", "t", "a", "i", "l">>
TopicsRelatedTo ==
    <<"T", "o", "p", "i", "c", "s", " ", "r", "e", "l", "a", "t", "e", "d", " ", "t", "o", " ">>

\* The two generic nodes made when the plan yields no node.
FallbackOnlyBeyond(label) == <<make_node(Beyond \o label, TopicsRelatedTo \o label)>>

FallbackNodes(label) ==
    <<make_node(label \o DeepDive, Explore \o label \o InGreaterDetail),
      make_node(Beyond \o label, TopicsRelatedTo \o label)>>

Transport == {"initial", "generate"}

\* A str-valued field of a request body: no such key or null ("missing"), a
\* value that is not a str ("int", n), or a str.
BodyField(k, n, text) == [k |-> k, n |-> n, text |-> text]

FieldMissing == BodyField("missing", 0, <<>>)
FieldStr(text) == BodyField("str", 0, text)

MaxTopicLen == 200

\* validate_topic(data): [error, topic]; the length limit applies to the
\* stripped topic.
WhitespaceAccepted(topic) ==
    IF topic.k # "str" \/ topic.text = <<>> THEN [error |-> TRUE, topic |-> <<>>]
    ELSE LET t == Strip(topic.text, Whitespace) IN
         IF Len(t) > MaxTopicLen THEN [error |-> TRUE, topic |-> <<>>]
         ELSE [error |-> FALSE, topic |-> t]

validate_topic(topic) ==
    IF topic.k # "str" \/ topic.text = <<>> THEN [error |-> TRUE, topic |-> <<>>]
    ELSE LET t == Strip(topic.text, Whitespace) IN
         IF Len(t) > MaxTopicLen THEN [error |-> TRUE, topic |-> <<>>]
         ELSE IF t = <<>> THEN [error |-> TRUE, topic |-> <<>>]
         ELSE [error |-> FALSE, topic |-> t]

\* The body of a POST /api/initial: not JSON, JSON that is not an object, or
\* an object with what it holds under "topic".
InitialBody(json, obj, topic) == [json |-> json, obj |-> obj, topic |-> topic]

LongTopic == Repeat("a", MaxTopicLen + 1)
PaddedTopic == TextC \o Repeat(" ", MaxTopicLen)

InitialBodies ==
    {InitialBody(FALSE, FALSE, FieldMissing), InitialBody(TRUE, FALSE, FieldMissing)}
        \cup {InitialBody(TRUE, TRUE, t) :
                 t \in {FieldMissing, BodyField("int", 0, <<>>), BodyField("int", 5, <<>>),
                        FieldStr(<<>>), FieldStr(<<" ", "\t">>), FieldStr(LongTopic),
                        FieldStr(PaddedTopic), FieldStr(TextC)}}

\* The answer of initial() before the try block: 400 from validate_json_body
\* or validate_topic, 500 when data.get fails on a body that is not an
\* object, 0 when the request goes on.
InitialBodyStatus(b) ==
    IF ~b.json THEN 400
    ELSE IF ~b.obj THEN 500
    ELSE IF validate_topic(b.topic).error THEN 400
    ELSE 0

\* The body of a POST /api/generate.  time_data: TimeData, with "absent" for
\* no such key; visited_nodes: no such key, a list, or something else.
GenerateBody(json, obj, current_node, time_data, visited_nodes) ==
    [json |-> json, obj |-> obj, current_node |-> current_node, time_data |-> time_data,
     visited_nodes |-> visited_nodes]

TimeDataAbsent == TimeData("absent", <<>>, <<>>)

VisitedList(items) == [k |-> "list", items |-> items]
VisitedMissing == [k |-> "missing", items |-> {}]
VisitedNotAList == [k |-> "str", items |-> {}]

\* Telemetry of a reader who stayed and one who did not.
EngagedTelemetry ==
    TimeData("dict",
             Fields(PyStr, PyInt(60000), PyInt(12), PyInt(2), PyInt(4), PyInt(15000)),
             TextSlugC)
ModerateTelemetry ==
    TimeData("dict",
             Fields(Absent, PyInt(12345), PyInt(3), PyInt(1), PyInt(3), PyInt(4116)), <<>>)
OverflowTelemetry ==
    TimeData("dict", Fields(Absent, PyInf, Absent, Absent, Absent, Absent), <<>>)

\* Bodies of generate(): the malformed ones, and well-formed ones over the
\* topics, the visited lists and the telemetry.
GenerateBodies ==
    {GenerateBody(FALSE, FALSE, FieldMissing, TimeDataAbsent, VisitedMissing),
     GenerateBody(TRUE, FALSE, FieldMissing, TimeDataAbsent, VisitedMissing)}
        \cup {GenerateBody(TRUE, TRUE, FieldStr(TextC), TimeDataAbsent, VisitedList(vis)) :
                 vis \in VisitedPool}
        \cup {GenerateBody(TRUE, TRUE, FieldStr(t), TimeDataAbsent, VisitedList({TextSlugAB})) :
                 t \in TopicPool}
        \cup {GenerateBody(TRUE, TRUE, FieldStr(TextC), td, VisitedMissing) :
                 td \in {EngagedTelemetry, ModerateTelemetry, OverflowTelemetry,
                         TimeDataNone, TimeDataStr, TimeDataList}}
        \cup {GenerateBody(TRUE, TRUE, c, TimeDataAbsent, VisitedMissing) :
                 c \in {FieldMissing, BodyField("int", 5, <<>>), FieldStr(<<>>)}}
        \cup {GenerateBody(TRUE, TRUE, FieldStr(TextC), TimeDataAbsent, VisitedNotAList),
              GenerateBody(TRUE, TRUE, FieldMissing, TimeDataStr, VisitedNotAList)}

\* The answer of generate() before the try block.
GenerateBodyStatus(b) ==
    IF ~b.json THEN 400
    ELSE IF ~b.obj THEN 500
    ELSE IF b.current_node.k # "str" \/ b.current_node.text = <<>> THEN 400
    ELSE IF b.time_data.k \notin {"absent", "none", "dict"} THEN 400
    ELSE IF b.visited_nodes.k \notin {"missing", "list"} THEN 400
    ELSE 0

\* One entry of the list a response validator returns: the error, and the
\* index of the block it is about (-1: the response itself).
ResponseError(at, err) == [at |-> at, err |-> err]

\* A block generate_content_blocks emitted, as the validator sees it: the
\* five keys every emitted block has, and "media" on a media block.
EmittedTextKeys == Range(RequiredBlockKeys)
EmittedMediaKeys == Range(RequiredBlockKeys) \cup {"media"}

EmittedBlock(b) ==
    Block(IF b.hasmedia THEN EmittedMediaKeys ELSE EmittedTextKeys,
          b.type, b.group_role, b.media)

RECURSIVE BlockListErrors(_, _)
BlockListErrors(bs, i) ==
    IF i > Len(bs) THEN <<>>
    ELSE LET es == validate_content_block(EmittedBlock(bs[i])) IN
         [e \in 1..Len(es) |-> ResponseError(i - 1, es[e])] \o BlockListErrors(bs, i + 1)

MissingKeyErrors(result, required) ==
    LET missing == SelectSeq(required, LAMBDA key : key \notin DOMAIN result)
    IN  [i \in 1..Len(missing) |-> ResponseError(-1, "Missing key: " \o missing[i])]

\* validate_response(result), for a result generate() builds: a dict whose
\* content_blocks and next_nodes are lists and whose engagement_score is a
\* float.
validate_response(result) ==
    MissingKeyErrors(result,
                     <<"content_blocks", "next_nodes", "strategy_used", "engagement_score">>)
    \o (IF "strategy_used" \in DOMAIN result
           /\ result.strategy_used \notin VALID_STRATEGIES
        THEN <<ResponseError(-1, "Invalid strategy")>> ELSE <<>>)
    \o (IF "engagement_score" \in DOMAIN result
           /\ (\/ result.engagement_score.units < 0
               \/ result.engagement_score.units > 10000
               \/ result.engagement_score.units = 10000
                    /\ result.engagement_score.num > 0)
        THEN <<ResponseError(-1, "engagement_score out of range")>> ELSE <<>>)
    \o (IF "content_blocks" \in DOMAIN result
        THEN BlockListErrors(result.content_blocks, 1) ELSE <<>>)

\* validate_initial_response(result), for a result generate_initial_content
\* builds.
validate_initial_response(result) ==
    MissingKeyErrors(result, <<"content_blocks", "graph", "next_nodes", "strategy_used">>)
    \o (IF "strategy_used" \in DOMAIN result /\ result.strategy_used # "deeper"
        THEN <<ResponseError(-1, "Initial strategy should be 'deeper'")>> ELSE <<>>)
    \o (IF "graph" \in DOMAIN result
        THEN (IF "nodes" \notin DOMAIN result.graph
              THEN <<ResponseError(-1, "graph missing 'nodes'")>>
              ELSE IF result.graph.nodes = <<>>
              THEN <<ResponseError(-1, "graph 'nodes' must be a non-empty list")>>
              ELSE <<>>)
             \o (IF "edges" \notin DOMAIN result.graph
                 THEN <<ResponseError(-1, "graph missing 'edges'")>> ELSE <<>>)
        ELSE <<>>)
    \o (IF "content_blocks" \in DOMAIN result
        THEN BlockListErrors(result.content_blocks, 1) ELSE <<>>)

Exploring == <<"E", "x", "p", "l", "o", "r", "i", "n", "g", " ">>

\* The result generate_initial_content returns once the blocks are there: the
\* graph holds the topic's node, then every next node with another id, with
\* one edge from the topic to each.
InitialResult(topic, bs, nn) ==
    LET node == make_node(topic, Exploring \o topic)
        others == SelectSeq(nn, LAMBDA n : n.id # node.id)
    IN  [content_blocks |-> bs,
         graph |-> [nodes |-> <<[id |-> node.id, label |-> node.label]>> \o others,
                    edges |-> [i \in 1..Len(others) |->
                                  [source |-> node.id, target |-> others[i].id]]],
         next_nodes |-> nn,
         strategy_used |-> "deeper"]

\* The result generate() builds: next_nodes cut down to id and label.
\* A generate answer that reports the initial route's strategy.
GenerateResultAlwaysDeeper(bs, nn, strat, score) ==
    [content_blocks |-> bs,
     next_nodes |-> [i \in 1..Len(nn) |-> [id |-> nn[i].id, label |-> nn[i].label]],
     strategy_used |-> "deeper",
     engagement_score |-> score]

GenerateResult(bs, nn, strat, score) ==
    [content_blocks |-> bs,
     next_nodes |-> [i \in 1..Len(nn) |-> [id |-> nn[i].id, label |-> nn[i].label]],
     strategy_used |-> strat,
     engagement_score |-> score]

\* The result the transport built from the finished request.
Result ==
    IF entry = "initial"
    THEN InitialResult(validate_topic(body.topic).topic, blocks, next_nodes)
    ELSE GenerateResult(blocks, next_nodes, strategy, engagement_score)

\* What the handler answers once the result is validated: the errors are
\* logged, jsonify(result) is returned.
AnswerBlockedByErrors(errs) ==
    IF errs # <<>> THEN [status |-> 500, body |-> "error"]
    ELSE [status |-> 200, body |-> "result"]

Answer(errs) == [status |-> 200, body |-> "result"]

\* POST /api/initial: the body checks, 503 without the orchestrator, else
\* generate_initial_content calls generate_content_blocks with no visited
\* node, strategy "deeper" and score 0.7.
Initial ==
    /\ rpc = "idle"
    /\ api_clients \in ServerConfigs
    /\ \E b \in InitialBodies :
          LET early == InitialBodyStatus(b)
              topic == validate_topic(b.topic).topic
          IN  /\ entry' = "initial"
              /\ body' = b
              /\ IF early # 0
                 THEN /\ status' = early
                      /\ rpc' = "done"
                      /\ UNCHANGED <<visited, topic_label, engagement_score, strategy>>
                 ELSE IF api_clients["claude"] # "available"
                 THEN /\ status' = 503
                      /\ rpc' = "done"
                      /\ UNCHANGED <<visited, topic_label, engagement_score, strategy>>
                 ELSE /\ visited' = {}
                      /\ topic_label' = LabelOf(slugify(topic))
                      /\ strategy' = "deeper"
                      /\ engagement_score' = Score(7000, 0, 1)
                      /\ rpc' = "plan"
                      /\ UNCHANGED status
    /\ UNCHANGED <<orch, orch_calls, glog, blocks, kept, ncands, next_nodes, ret, response,
                   errors>>
    /\ UNCHANGED <<trackerVars, processVars, resolveVars, callVars>>

\* POST /api/generate: the body checks, then sanitize_time_data,
\* compute_engagement_score and select_strategy (500 when they raise), 503
\* without the orchestrator, else generate_content_blocks with the caller's
\* visited_nodes.
Generate ==
    /\ rpc = "idle"
    /\ api_clients \in ServerConfigs
    /\ \E b \in GenerateBodies :
          LET early == GenerateBodyStatus(b)
              time_data == IF b.time_data.k = "absent" THEN TimeDataNone ELSE b.time_data
              clean_time_data == sanitize_time_data(time_data)
              scored == compute_engagement_score(AsTimeData(clean_time_data.value))
          IN  /\ entry' = "generate"
              /\ body' = b
              /\ IF early # 0
                 THEN /\ status' = early
                      /\ rpc' = "done"
                      /\ UNCHANGED <<visited, topic_label, engagement_score, strategy>>
                 ELSE IF clean_time_data.raised
                 THEN /\ status' = 500
                      /\ rpc' = "done"
                      /\ UNCHANGED <<visited, topic_label, engagement_score, strategy>>
                 ELSE /\ engagement_score' = scored.score
                      /\ strategy' = select_strategy(scored.score)
                      /\ IF api_clients["claude"] # "available"
                         THEN /\ status' = 503
                              /\ rpc' = "done"
                              /\ UNCHANGED <<visited, topic_label>>
                         ELSE /\ visited' = b.visited_nodes.items
                              /\ topic_label' = LabelOf(slugify(b.current_node.text))
                              /\ rpc' = "plan"
                              /\ UNCHANGED status
    /\ UNCHANGED <<orch, orch_calls, glog, blocks, kept, ncands, next_nodes, ret, response,
                   errors>>
    /\ UNCHANGED <<trackerVars, processVars, resolveVars, callVars>>

DirectVisited == {{}, {TextSlugAB, TextSlugC}}

\* generate_content_blocks called with a hand-built api_clients dict.
Direct ==
    /\ rpc = "idle"
    /\ api_clients \in DirectConfigs
    /\ \E topic_id \in {slugify(t) : t \in TopicPool}, vis \in DirectVisited :
          /\ entry' = "direct"
          /\ visited' = vis
          /\ topic_label' = LabelOf(topic_id)
          /\ strategy' = "branch"
          /\ engagement_score' = Score(5000, 0, 1)
          /\ rpc' = "plan"
    /\ UNCHANGED <<orch, orch_calls, glog, blocks, kept, ncands, next_nodes, ret, status,
                   body, response, errors>>
    /\ UNCHANGED <<trackerVars, processVars, resolveVars, callVars>>

\* generate_content_with_claude, and what the caller does with None:
\* generate_content_blocks returns (None, None), the transport answers 502.
Orchestrate ==
    /\ rpc = "plan"
    /\ \E resp \in OrchResponses :
          LET called == api_clients["claude"] = "available"
              outcome == IF called THEN resp
                         ELSE IF api_clients["claude"] = "missing" THEN "missing"
                         ELSE "unavailable"
          IN  /\ orch' = outcome
              /\ orch_calls' = IF called THEN orch_calls + 1 ELSE orch_calls
              /\ IF called /\ OrchAccepts(resp)
                 THEN /\ rpc' = "groups"
                      /\ UNCHANGED <<ret, status>>
                 ELSE /\ rpc' = "done"
                      /\ ret' = "failure"
                      /\ status' = IF entry \in Transport THEN 502 ELSE status
    /\ UNCHANGED <<entry, visited, topic_label, glog, blocks, kept, ncands, next_nodes,
                   body, engagement_score, strategy, response, errors>>
    /\ UNCHANGED <<trackerVars, processVars, resolveVars, callVars>>

PlanItems == Len(glog) + ncands

\* What one pass of the loop over the groups appends: the text block when the
\* text is truthy, then the media block when the request resolved to a value.
MediaBeforeText(gid, g, media_data) ==
    (IF media_data # NoneValue THEN <<MediaBlock(gid, g, media_data)>> ELSE <<>>)
    \o (IF g.text = "text" THEN <<TextBlock(gid, g)>> ELSE <<>>)

TextNeedsMedia(gid, g, media_data) ==
    IF media_data = NoneValue THEN <<>>
    ELSE (IF g.text = "text" THEN <<TextBlock(gid, g)>> ELSE <<>>)
         \o <<MediaBlock(gid, g, media_data)>>

GroupBlocks(gid, g, media_data) ==
    (IF g.text = "text" THEN <<TextBlock(gid, g)>> ELSE <<>>)
    \o (IF media_data # NoneValue THEN <<MediaBlock(gid, g, media_data)>> ELSE <<>>)

\* The body of the loop over the plan's groups, for the next group of the
\* plan: the text block, then the media block if the request resolves.  An
\* exception leaves generate_content_blocks; the transport answers 500.
GroupStep ==
    /\ rpc = "groups"
    /\ PlanItems < MaxPlanItems
    /\ \E gc \in GroupCases :
          LET g == gc[1]
              beh == gc[2]
              gid == Len(glog) + 1
              withText == GroupBlocks(gid, g, NoneValue)
              wantsMedia == g.req.shape \in {"text", "dict"}
              crashes == g.req.shape = "text"
              out == _resolve_media(g.req, topic_label, api_clients, memes_cache, beh)
          IN  /\ Possible(g.req, memes_cache, beh)
              /\ IF ~wantsMedia
                 THEN /\ glog' = Append(glog, [g |-> g, beh |-> beh, resolved |-> FALSE])
                      /\ blocks' = blocks \o withText
                      /\ UNCHANGED <<rpc, ret, status, memes_cache>>
                 ELSE IF crashes
                 THEN /\ glog' = Append(glog, [g |-> g, beh |-> beh, resolved |-> FALSE])
                      /\ blocks' = blocks \o withText
                      /\ rpc' = "done"
                      /\ ret' = "raised"
                      /\ status' = IF entry \in Transport THEN 500 ELSE status
                      /\ UNCHANGED memes_cache
                 ELSE /\ glog' = Append(glog, [g |-> g, beh |-> beh, resolved |-> TRUE]
                                                  @@ out)
                      /\ memes_cache' = CacheAfter(memes_cache, out)
                      /\ IF out.raised
                         THEN /\ blocks' = blocks \o withText
                              /\ rpc' = "done"
                              /\ ret' = "raised"
                              /\ status' = IF entry \in Transport THEN 500 ELSE status
                         ELSE /\ blocks' = blocks \o GroupBlocks(gid, g, out.ret)
                              /\ UNCHANGED <<rpc, ret, status>>
    /\ UNCHANGED <<entry, visited, topic_label, orch, orch_calls, kept, ncands, next_nodes,
                   body, engagement_score, strategy, response, errors>>
    /\ UNCHANGED <<api_clients, trackerVars, resolveVars, callVars>>

\* The plan has no further group: on to its next_nodes.
EndGroups ==
    /\ rpc = "groups"
    /\ rpc' = "nodes"
    /\ UNCHANGED <<entry, visited, topic_label, orch, orch_calls, glog, blocks, kept,
                   ncands, next_nodes, ret, status, body, engagement_score, strategy,
                   response, errors>>
    /\ UNCHANGED <<trackerVars, processVars, resolveVars, callVars>>

\* The body of the loop over the plan's next_nodes, for the next candidate.
NodeStep ==
    /\ rpc = "nodes"
    /\ PlanItems < MaxPlanItems
    /\ \E c \in CandPool :
          kept' = kept \o NodesFrom(c, visited)
    /\ ncands' = ncands + 1
    /\ UNCHANGED <<rpc, entry, visited, topic_label, orch, orch_calls, glog, blocks,
                   next_nodes, ret, status, body, engagement_score, strategy, response,
                   errors>>
    /\ UNCHANGED <<trackerVars, processVars, resolveVars, callVars>>

\* The plan has no further candidate: the fallback and the return of
\* generate_content_blocks; in the transport the result is built and
\* validated, and answered with 200.
Finish ==
    /\ rpc = "nodes"
    /\ LET nn == IF kept = <<>> THEN FallbackNodes(topic_label) ELSE kept
           result == IF entry = "initial"
                     THEN InitialResult(validate_topic(body.topic).topic, blocks, nn)
                     ELSE GenerateResult(blocks, nn, strategy, engagement_score)
           errs == IF entry = "initial" THEN validate_initial_response(result)
                   ELSE validate_response(result)
           answer == Answer(errs)
       IN  /\ next_nodes' = nn
           /\ IF entry \in Transport
              THEN /\ status' = answer.status
                   /\ response' = answer.body
                   /\ errors' = errs
              ELSE UNCHANGED <<status, response, errors>>
    /\ ret' = "success"
    /\ rpc' = "done"
    /\ UNCHANGED <<entry, visited, topic_label, orch, orch_calls, glog, blocks, kept,
                   ncands, body, engagement_score, strategy>>
    /\ UNCHANGED <<trackerVars, processVars, resolveVars, callVars>>

AssembleNext ==
    \/ Initial
    \/ Generate
    \/ Direct
    \/ Orchestrate
    \/ GroupStep
    \/ EndGroups
    \/ NodeStep
    \/ Finish

\* A process that has created its clients and waits for a request.
AssembleStart == TrackerIdle /\ ProcessInit /\ ResolveIdle /\ CallIdle /\ RequestIdle

SpecAssemble == AssembleStart /\ [][AssembleNext]_vars

(***************************************************************************)
(* ImgflipClient._get_memes under concurrent requests                      *)
(***************************************************************************)
\* What _memes_cache holds: None, or the list last stored.
NoCatalog == [k |-> "none", memes |-> <<>>]
Catalog(memes) == [k |-> "list", memes |-> memes]

\* if self._memes_cache
HasCatalog(c) == c.k = "list" /\ c.memes # <<>>

\* What resp.json().get("data", {}).get("memes", []) can be: the catalog as
\* the source has it at that moment, or [] for an answer without one.
FetchedCatalogs == {Catalog(<<>>), Catalog(<<"drake">>), Catalog(<<"drake", "doge">>)}

Threads == 1..MaxThreads

\* The locals of a thread outside _get_memes, and the record of its calls.
ThreadIdle == [pc |-> "idle", seen |-> NoCatalog, fetched |-> NoCatalog]
NoCalls == [calls |-> 0, fetch |-> FALSE, result |-> NoCatalog]

MemesInit ==
    /\ api_clients = AllAvailable
    /\ memes_cache = NoCatalog
    /\ call_in = [t \in Threads |-> ThreadIdle]
    /\ call_out = [t \in Threads |-> NoCalls]

\* if self._memes_cache: on to the return of the cached list, else on to the
\* fetch.
GetMemesCheck ==
  \E t \in Threads :
    /\ call_in[t].pc = "idle"
    /\ call_out[t].calls < MaxCalls
    /\ call_in' = [call_in EXCEPT ![t] =
                      [pc |-> IF HasCatalog(memes_cache) THEN "return" ELSE "fetch",
                       seen |-> memes_cache, fetched |-> NoCatalog]]
    /\ call_out' = [call_out EXCEPT ![t] =
                       [calls |-> @.calls + 1, fetch |-> FALSE, result |-> NoCatalog]]
    /\ UNCHANGED <<memes_cache, api_clients, trackerVars, resolveVars, requestVars>>

\* requests.get, raise_for_status and the parse of the answer: an exception
\* is logged and [] returned, else the list is there to be stored.
GetMemesFetch ==
  \E t \in Threads :
    /\ call_in[t].pc = "fetch"
    /\ \/ /\ call_in' = [call_in EXCEPT ![t].pc = "idle"]
          /\ call_out' = [call_out EXCEPT ![t].fetch = TRUE, ![t].result = Catalog(<<>>)]
       \/ \E c \in FetchedCatalogs :
             /\ call_in' = [call_in EXCEPT ![t].pc = "store", ![t].fetched = c]
             /\ call_out' = [call_out EXCEPT ![t].fetch = TRUE]
    /\ UNCHANGED <<memes_cache, api_clients, trackerVars, resolveVars, requestVars>>

\* self._memes_cache = <the list fetched>
GetMemesStore ==
  \E t \in Threads :
    /\ call_in[t].pc = "store"
    /\ memes_cache' = call_in[t].fetched
    /\ call_in' = [call_in EXCEPT ![t].pc = "return"]
    /\ UNCHANGED <<call_out, api_clients, trackerVars, resolveVars, requestVars>>

\* return self._memes_cache
GetMemesReturn ==
  \E t \in Threads :
    /\ call_in[t].pc = "return"
    /\ call_in' = [call_in EXCEPT ![t].pc = "idle"]
    /\ call_out' = [call_out EXCEPT ![t].result = memes_cache]
    /\ UNCHANGED <<memes_cache, api_clients, trackerVars, resolveVars, requestVars>>

MemesNext ==
    \/ GetMemesCheck
    \/ GetMemesFetch
    \/ GetMemesStore
    \/ GetMemesReturn

MemesStart == TrackerIdle /\ ResolveIdle /\ MemesInit /\ RequestIdle

SpecMemes == MemesStart /\ [][MemesNext]_vars

(***************************************************************************)
(* Claims about MediaVarietyTracker (checked under SpecTracker)            *)
(***************************************************************************)

\* C1: with more than one configured kind, no two consecutive results of
\* next_type() are equal, whatever the shuffles were.
C1_NoConsecutiveDuplicates ==
    Len(types) > 1 =>
        \A i \in 1..(Len(hist) - 1) : hist[i] # hist[i + 1]

\* A call that refilled the queue, drew the previous result first, requeued
\* it once and returned.
C1_Witness ==
    /\ Len(types) > 1
    /\ tpc = "idle"
    /\ reshuffled
    /\ attempts = 1
    /\ Len(hist) > Len(types)

Window(from, len) == {hist[i] : i \in from..(from + len - 1)}

\* C2: every run of 2 x len(kinds) consecutive draws contains every configured
\* kind, and so do the first len(kinds) draws of a fresh tracker.
C2_EveryKindInWindow ==
    /\ \A from \in 1..Len(hist) :
          from + 2 * Len(types) - 1 <= Len(hist)
              => Window(from, 2 * Len(types)) = Range(types)
    /\ Len(hist) >= Len(types) => Window(1, Len(types)) = Range(types)

\* A run longer than 2 x len(kinds) that crossed a reshuffle with a requeue.
C2_Witness ==
    /\ Len(types) >= 2
    /\ Len(hist) > 2 * Len(types)
    /\ reshuffled
    /\ attempts = 1

\* C3: the requeue loop runs at most len(kinds) times per call, and with one
\* configured kind it never runs and every call returns that kind.
C3_LoopBounded ==
    /\ attempts <= Len(types)
    /\ Len(types) = 1 =>
          /\ attempts = 0
          /\ \A i \in 1..Len(hist) : hist[i] = types[1]
          /\ tpc = "loop" => ~WhileCond(media_type, last, types, attempts)

\* A one-kind tracker that has answered past the refill of its queue.
C3_Witness ==
    /\ Len(types) = 1
    /\ reshuffled
    /\ tpc = "idle"
    /\ Len(hist) >= 3
    /\ last = types[1]

(***************************************************************************)
(* Claims about generate_content_blocks and the transport (SpecAssemble)   *)
(***************************************************************************)

\* C4: no next-node suggestion returned to a caller has an id that is in
\* the caller's visited set (dict, bare-string and fallback nodes alike).
C4_NoVisitedSuggestion ==
    ret = "success" =>
        \A i \in 1..Len(next_nodes) : next_nodes[i].id \notin visited

\* C5: when no candidate of the plan survives, exactly two fallback nodes are
\* returned, "<label> Deep Dive" and "Beyond <label>", so a successful result
\* never has an empty next_nodes list; otherwise the surviving nodes are
\* returned.
C5_TwoFallbackNodes ==
    ret = "success" =>
        /\ next_nodes # <<>>
        /\ kept # <<>> => next_nodes = kept
        /\ kept = <<>> =>
              /\ Len(next_nodes) = 2
              /\ next_nodes[1].label = topic_label \o DeepDive
              /\ next_nodes[2].label = Beyond \o topic_label
              /\ \A i \in 1..2 : next_nodes[i].id = slugify(next_nodes[i].label)

\* A plan whose two candidates were both dropped, for a caller with visited
\* nodes.
C5_Witness ==
    /\ ret = "success"
    /\ ncands = 2
    /\ kept = <<>>
    /\ visited # {}
    /\ Len(next_nodes) = 2

\* C6: the returned next-node list holds no two entries with the same id.
C6_NoDuplicateIds ==
    ret = "success" =>
        \A i, j \in 1..Len(next_nodes) :
            i # j => next_nodes[i].id # next_nodes[j].id

OrchFailures == {"missing", "unavailable", "none", "list", "emptydict", "nogroups"}

\* C7: an orchestration failure gives the failure value (None, None) and a
\* 502 or 503 from the transport, never a success; a valid plan that yields
\* no block gives an empty block list with success.
C7_FailureIsNotNoContent ==
    /\ orch \in OrchFailures =>
          /\ rpc = "done"
          /\ ret = "failure"
          /\ blocks = <<>> /\ next_nodes = <<>>
          /\ entry \in Transport => status = 502
    /\ (/\ entry \in Transport /\ rpc # "idle" /\ api_clients["claude"] # "available"
        /\ status \notin {400, 500}) =>
          /\ rpc = "done"
          /\ status = 503
          /\ ret = "none"
          /\ orch_calls = 0
    /\ ret = "success" =>
          /\ orch = "plan"
          /\ entry \in Transport => status = 200
    /\ status = 200 => ret = "success"

\* The orchestrator answered with an object that has no "groups" key.
C7_Witness ==
    /\ entry = "generate"
    /\ orch = "nogroups"
    /\ orch_calls = 1
    /\ status = 502

UrlHasMarker(url) ==
    \E off \in 0..(Len(url) - Len(Marker)) :
        \A j \in 1..Len(Marker) : LowerChar(url[off + j]) = Marker[j]

\* C9: a collaborator result whose url contains "placeholder" in any letter
\* case resolves to absent, and its group emits no media block.
C9_PlaceholderDiscarded ==
    \A i \in 1..Len(glog) :
        (/\ glog[i].resolved
         /\ glog[i].client # "none"
         /\ glog[i].got.k = "dict"
         /\ glog[i].got.urlt = "str"
         /\ UrlHasMarker(glog[i].got.url))
        => /\ glog[i].ret = NoneValue
           /\ ~glog[i].raised
           /\ \A b \in 1..Len(blocks) :
                 blocks[b].group_id = i => ~blocks[b].hasmedia

\* A finished request one of whose groups has text and an upper-case
\* placeholder url: the text block is there, the media block is not.
C9_Witness ==
    /\ ret = "success"
    /\ \E i \in 1..Len(glog) :
          /\ glog[i].resolved
          /\ glog[i].client = "unsplash"
          /\ glog[i].got = MarkedResult
          /\ \E b \in 1..Len(blocks) : blocks[b].group_id = i /\ blocks[b].type = "text"

(***************************************************************************)
(* Claims about _resolve_media (SpecResolve)                               *)
(***************************************************************************)

\* C8: a fetch is invoked only on the collaborator matching the requested
\* kind and only if it reports itself available; with the collaborator
\* missing or unavailable the request resolves to absent, nothing reaches
\* the external source and nothing is raised.
C8_FetchOnlyIfAvailable ==
    resolve_out.called =>
        LET req == resolve_in.req
            kind == IF req.type = Missing THEN "unsplash" ELSE req.type
            name == MediaClient(kind)
        IN  /\ resolve_out.client # "none" =>
                  /\ req.shape = "dict"
                  /\ resolve_out.client = name
                  /\ api_clients[name] = "available"
            /\ (req.shape = "dict" /\ name # "none" /\ api_clients[name] # "available") =>
                  /\ resolve_out.ret = NoneValue
                  /\ ~resolve_out.external
                  /\ ~resolve_out.raised

\* C10: _resolve_media never lets an exception out, whatever the request and
\* whatever the collaborator raises or returns.
C10_NeverRaises ==
    resolve_out.called => ~resolve_out.raised

(***************************************************************************)
(* Telemetry claims                                                        *)
(***************************************************************************)
Scored == call_out.called /\ call_in.fn = "compute_engagement_score"

ScoreLeq(a, b) ==
    \/ a.units < b.units
    \/ a.units = b.units /\ a.num * b.den <= b.num * a.den

\* C12: raising one of total_time_on_node_ms, scroll_events, go_deeper_clicks,
\* time_per_section_ms, the others held fixed, never lowers the score.
C12_NonDecreasing ==
    [][(/\ Scored /\ call_out'.called
        /\ ~call_out.raised /\ ~call_out'.raised
        /\ RaisedOneInput(call_in.arg, call_in'.arg))
       => ScoreLeq(call_out.score, call_out'.score)]_vars

\* A field holding a value that is not a number, and a negative number.
WrongTyped(v) == v.k \in {"none", "str", "numstr", "list"}
Negative(v) == v.k \in {"int", "float"} /\ v.n < 0

\* Absent or malformed telemetry: not a dict, or a dict each of whose numeric
\* fields is missing, wrong-typed or negative.
Malformed(time_data) ==
    \/ time_data.k # "dict"
    \/ \A key \in NumericKeys :
          LET v == time_data.d[key] IN v = Absent \/ WrongTyped(v) \/ Negative(v)

\* C13: the score of absent or malformed telemetry is exactly 0.0, and the
\* strategy chosen from it is "pivot".
C13_MalformedScoresZero ==
    (Scored /\ Malformed(call_in.arg)) =>
        /\ ~call_out.raised
        /\ call_out.score = ScoreZero
        /\ call_out.strategy = "pivot"

\* score >= h hundredths, by cross-multiplication.
AtLeastHundredths(score, h) ==
    (score.units * score.den + score.num) * 100 >= h * 10000 * score.den

\* C14: select_strategy is the threshold map: "deeper" from 0.65 on, "branch"
\* from 0.35 up to but not including 0.65, "pivot" below 0.35; exactly one
\* strategy for every score.
C14_ThresholdMap ==
    (call_out.called /\ ~call_out.raised) =>
        /\ call_out.strategy \in VALID_STRATEGIES
        /\ call_out.strategy = "deeper" <=> AtLeastHundredths(call_out.score, 65)
        /\ call_out.strategy = "branch" <=>
              (AtLeastHundredths(call_out.score, 35) /\ ~AtLeastHundredths(call_out.score, 65))
        /\ call_out.strategy = "pivot" <=> ~AtLeastHundredths(call_out.score, 35)

\* select_strategy has been handed exactly 0.65 and answered "deeper".
C14_Witness ==
    /\ call_out.called /\ call_in.fn = "select_strategy"
    /\ call_out.score = Score(6500, 0, 100)
    /\ call_out.strategy = "deeper"

\* C15: sanitize_time_data never fails and returns the six keys, every numeric
\* field a non-negative integer, sections_in_current_node at least 1.
C15_SanitizeTotal ==
    Scored =>
        /\ ~call_out.raised
        /\ DOMAIN call_out.td = NumericKeys \cup {"current_node_id"}
        /\ \A key \in NumericKeys : call_out.td[key] \in Nat
        /\ call_out.td.sections_in_current_node >= 1

(***************************************************************************)
(* Validator claims                                                        *)
(***************************************************************************)
Validated == call_out.called /\ call_in.fn = "validate_content_block"

IsMediaBlock(block) == "type" \in block.keys /\ block.type \in Range(MEDIA_TYPES)
IsTextBlock(block) == "type" \in block.keys /\ block.type = "text"

HasUrl(block) ==
    "media" \in block.keys /\ block.media.k = "dict" /\ block.media.urlt # "missing"
HasSource(block) ==
    "media" \in block.keys /\ block.media.k = "dict" /\ block.media.source

\* All required keys, a recognized kind, a role of the variant's set and, for
\* a media block, a media payload with url and source.
WellFormedBlock(block) ==
    /\ Range(RequiredBlockKeys) \subseteq block.keys
    /\ \/ IsTextBlock(block) /\ block.group_role \in VALID_GROUP_ROLES_TEXT
       \/ /\ IsMediaBlock(block) /\ block.group_role \in VALID_GROUP_ROLES_MEDIA
          /\ HasUrl(block) /\ HasSource(block)

C18_RoleOutsideSetIsError ==
    (Validated /\ IsBlockDict(call_in.arg) /\ "group_role" \in call_in.arg.keys) =>
        LET block == call_in.arg IN
        /\ (IsTextBlock(block) /\ block.group_role \notin VALID_GROUP_ROLES_TEXT)
              => call_out.errors # <<>>
        /\ (IsMediaBlock(block) /\ block.group_role \notin VALID_GROUP_ROLES_MEDIA)
              => call_out.errors # <<>>

(***************************************************************************)
(* Slug claims                                                             *)
(***************************************************************************)
\* C19: slugify(slugify(x)) = slugify(x) and len(slugify(x)) <= 80 for every
\* text x, texts longer than 80 characters included; an empty or
\* whitespace-only text gives the empty slug.
C19_SlugIdempotentAndBounded ==
    (call_out.called /\ call_in.fn = "slugify") =>
        /\ Len(call_out.slug) <= MaxSlugLen
        /\ call_out.times = 2 => call_out.again = call_out.slug
        /\ (\A i \in 1..Len(call_in.arg) : call_in.arg[i] \in Whitespace)
              => call_out.slug = <<>>

\* A text longer than 80 characters has been cut at a hyphen, and the slug
\* has been slugified again.
C19_Witness ==
    /\ call_out.called /\ call_in.fn = "slugify"
    /\ call_out.times = 2
    /\ Len(call_in.arg) > MaxSlugLen
    /\ Len(call_out.slug) \in 1..(MaxSlugLen - 1)
    /\ \E i \in 1..MaxSlugLen : Lower(call_in.arg)[i] = "-"

(***************************************************************************)
(* Validation in the transport                                             *)
(***************************************************************************)

\* C16: validation is non-blocking: when validate_response or
\* validate_initial_response reports errors for the result the transport
\* built, the step that validated it still answers 200 with that result, and
\* leaves the blocks, the strategy and the score it inspected as they were.
C16_ValidationNonBlocking ==
    [][(/\ rpc = "nodes" /\ rpc' = "done"
        /\ entry \in Transport
        /\ errors' # <<>>)
       => /\ status' = 200
          /\ response' = "result"
          /\ blocks' = blocks
          /\ strategy' = strategy
          /\ engagement_score' = engagement_score]_vars

\* A generate request answered with 200 although one of its blocks carries
\* a role tag outside its variant's set.
C16_Witness ==
    /\ entry = "generate"
    /\ rpc = "done"
    /\ status = 200
    /\ response = "result"
    /\ \E e \in 1..Len(errors) :
          /\ errors[e].at >= 0
          /\ errors[e].err \in {"Invalid text group_role", "Invalid media group_role"}

(***************************************************************************)
(* Rejections of the transport                                             *)
(***************************************************************************)

AllWhitespace(text) == \A i \in 1..Len(text) : text[i] \in Whitespace

\* A request answered with 400 and nothing else done.
Rejected ==
    /\ rpc = "done"
    /\ status = 400
    /\ orch_calls = 0
    /\ glog = <<>>
    /\ blocks = <<>>
    /\ next_nodes = <<>>
    /\ response = None

\* The bodies C20 lists, read to the letter: a topic of more than 200
\* characters as sent, a time_data key holding anything but an object.
MalformedAsSent ==
    IF ~body.json THEN TRUE
    ELSE IF ~body.obj THEN FALSE
    ELSE IF entry = "initial"
    THEN \/ body.topic.k # "str"
         \/ AllWhitespace(body.topic.text)
         \/ Len(body.topic.text) > MaxTopicLen
    ELSE \/ body.current_node.k # "str"
         \/ body.current_node.text = <<>>
         \/ body.time_data.k \notin {"absent", "dict"}
         \/ body.visited_nodes.k \notin {"missing", "list"}

MalformedBody ==
    IF ~body.json THEN TRUE
    ELSE IF ~body.obj THEN FALSE
    ELSE IF entry = "initial"
    THEN \/ body.topic.k # "str"
         \/ AllWhitespace(body.topic.text)
         \/ Len(Strip(body.topic.text, Whitespace)) > MaxTopicLen
    ELSE \/ body.current_node.k # "str"
         \/ body.current_node.text = <<>>
         \/ body.time_data.k \notin {"absent", "none", "dict"}
         \/ body.visited_nodes.k \notin {"missing", "list"}

C21_PlanOrder ==
    /\ \A b \in 1..Len(blocks) : blocks[b].group_id \in 1..Len(glog)
    /\ \A a, b \in 1..Len(blocks) :
          a < b =>
             /\ blocks[a].group_id <= blocks[b].group_id
             /\ blocks[a].group_id = blocks[b].group_id =>
                   ~blocks[a].hasmedia /\ blocks[b].hasmedia

\* A finished request whose two groups both gave a text and a media block.
C21_Witness ==
    /\ ret = "success"
    /\ Len(glog) = 2
    /\ Len(blocks) = 4
    /\ \A i \in 1..2 : glog[i].g.text = "text" /\ glog[i].resolved

\* The blocks emitted for plan group i, in order.
BlocksOf(i) == SelectSeq(blocks, LAMBDA b : b.group_id = i)

\* Group i asked for media and got none: no collaborator was there for the
\* kind, the collaborator was unavailable, failed or returned nothing, or the
\* url it returned is a placeholder.
ResolvedAbsent(i) ==
    /\ glog[i].g.req.shape = "dict"
    /\ glog[i].resolved
    /\ \/ glog[i].client = "none"
       \/ glog[i].got = NoneValue
       \/ /\ glog[i].got.k = "dict"
          /\ glog[i].got.urlt = "str"
          /\ UrlHasMarker(glog[i].got.url)

\* What group i is due: its text block when it has text, then its media
\* block when its own request resolved to a value.
DueBlocks(i) ==
    LET g == glog[i].g
        media == IF glog[i].resolved /\ ~glog[i].raised THEN glog[i].ret ELSE NoneValue
    IN  (IF g.text = "text" THEN <<TextBlock(i, g)>> ELSE <<>>)
        \o (IF media # NoneValue THEN <<MediaBlock(i, g, media)>> ELSE <<>>)

\* C22: a group whose media request resolves to absent emits no media block
\* and raises nothing (a request that raised did so in a later group), its
\* text block is still there, and every group's blocks are what that group
\* alone is due.
C22_AbsentMediaOmitted ==
    /\ \A i \in 1..Len(glog) :
          ResolvedAbsent(i) =>
             /\ ~glog[i].raised
             /\ glog[i].ret = NoneValue
             /\ ret = "raised" => i < Len(glog)
             /\ \A b \in 1..Len(blocks) : blocks[b].group_id = i => ~blocks[b].hasmedia
             /\ glog[i].g.text = "text" => BlocksOf(i) = <<TextBlock(i, glog[i].g)>>
    /\ \A j \in 1..Len(glog) : BlocksOf(j) = DueBlocks(j)

\* A finished request whose first group's collaborator failed and whose
\* second group got its media: three blocks, none of them media of group 1.
C22_Witness ==
    /\ ret = "success"
    /\ Len(glog) = 2
    /\ ResolvedAbsent(1)
    /\ glog[1].beh = Raises
    /\ glog[1].g.text = "text"
    /\ glog[2].resolved /\ glog[2].ret # NoneValue
    /\ Len(blocks) >= 2

\* C23: every emitted text block carries its group's text-role tag when the
\* tag is a valid text role and "explanation" when it is missing or invalid;
\* every emitted media block carries the media-role tag when valid and
\* "visual" otherwise; so every block's role is in its variant's role set.
C23_RoleValidOrDefault ==
    \A b \in 1..Len(blocks) :
        LET g == glog[blocks[b].group_id].g IN
        IF blocks[b].hasmedia
        THEN /\ blocks[b].group_role =
                   (IF g.role_media \in VALID_GROUP_ROLES_MEDIA THEN g.role_media ELSE "visual")
             /\ blocks[b].group_role \in VALID_GROUP_ROLES_MEDIA
        ELSE /\ blocks[b].group_role =
                   (IF g.role_text \in VALID_GROUP_ROLES_TEXT THEN g.role_text
                    ELSE "explanation")
             /\ blocks[b].group_role \in VALID_GROUP_ROLES_TEXT

\* How many blocks the pass over plan group i appended: one for a truthy
\* text, one for a request that resolved to a value.
EmittedCount(i) ==
    (IF glog[i].g.text = "text" THEN 1 ELSE 0)
    + (IF glog[i].resolved /\ ~glog[i].raised /\ glog[i].ret # NoneValue THEN 1 ELSE 0)

RECURSIVE EmittedBefore(_)
EmittedBefore(i) == IF i <= 1 THEN 0 ELSE EmittedBefore(i - 1) + EmittedCount(i - 1)

\* The plan group during whose pass the block at position k was appended.
GroupAt(k) ==
    CHOOSE i \in 1..Len(glog) :
        EmittedBefore(i) < k /\ k <= EmittedBefore(i) + EmittedCount(i)

\* C24: every block belongs to exactly one group: two blocks carry the same
\* group_id exactly when they were emitted from the same plan group
\* (identifiers are fresh: the n-th group gets the n-th identifier).
C24_OneGroupPerBlock ==
    /\ Len(blocks) = EmittedBefore(Len(glog) + 1)
    /\ \A a, b \in 1..Len(blocks) :
          (GroupAt(a) = GroupAt(b)) <=> (blocks[a].group_id = blocks[b].group_id)

\* A finished request with a text and a media block from its first group and
\* a media block from its second.
C24_Witness ==
    /\ ret = "success"
    /\ Len(blocks) = 3
    /\ GroupAt(1) = 1 /\ GroupAt(2) = 1 /\ GroupAt(3) = 2
    /\ blocks[2].hasmedia /\ blocks[3].hasmedia

(***************************************************************************)
(* Claims about the answers of the transport (checked under SpecAssemble)  *)
(***************************************************************************)

\* C25: the graph of a successful initial request holds one node for the
\* topic and then the produced next-nodes, with exactly one edge from the
\* topic to each produced next-node; its nodes are unique by id and every
\* edge joins ids of its nodes.
C25_InitialGraph ==
    (entry = "initial" /\ ret = "success") =>
        LET graph == Result.graph
            topic == make_node(validate_topic(body.topic).topic, <<>>)
            ids == {graph.nodes[i].id : i \in 1..Len(graph.nodes)}
        IN  /\ Len(graph.nodes) = 1 + Len(next_nodes)
            /\ graph.nodes[1].id = topic.id /\ graph.nodes[1].label = topic.label
            /\ \A i \in 1..Len(next_nodes) : graph.nodes[i + 1].id = next_nodes[i].id
            /\ Len(graph.edges) = Len(next_nodes)
            /\ \A i \in 1..Len(next_nodes) :
                  graph.edges[i] = [source |-> topic.id, target |-> next_nodes[i].id]
            /\ \A i, j \in 1..Len(graph.nodes) :
                  graph.nodes[i].id = graph.nodes[j].id => i = j
            /\ \A e \in 1..Len(graph.edges) :
                  graph.edges[e].source \in ids /\ graph.edges[e].target \in ids

\* Collaborator fetches invoked for the first n plan groups.
RECURSIVE FetchesUpTo(_)
FetchesUpTo(n) ==
    IF n = 0 THEN 0
    ELSE FetchesUpTo(n - 1) + (IF glog[n].resolved THEN glog[n].fetches ELSE 0)

\* The plan groups that carry a media request.
MediaRequesting == {i \in 1..Len(glog) : glog[i].g.req.shape \in {"text", "dict"}}

SupportedKinds == {MEDIA_TYPES[k] : k \in 1..Len(MEDIA_TYPES)}

\* The group's media request is a dict naming a kind outside the seven.
NamesUnknownKind(i) ==
    /\ glog[i].g.req.shape = "dict"
    /\ glog[i].g.req.type # Missing
    /\ glog[i].g.req.type \notin SupportedKinds

\* C28: every emitted media block has one of the seven supported kinds as
\* its type and carries a non-null payload, the one the collaborator of that
\* kind returned for its group; a group whose media request names an unknown
\* kind gets no media block, reaches no collaborator and raises nothing.
C28_MediaFromMatchingCollaborator ==
    /\ \A b \in 1..Len(blocks) :
          blocks[b].hasmedia =>
             LET i == blocks[b].group_id
             IN  /\ blocks[b].type \in SupportedKinds
                 /\ blocks[b].media # NoneValue
                 /\ i \in 1..Len(glog)
                 /\ glog[i].resolved
                 /\ glog[i].client = MediaClient(blocks[b].type)
                 /\ glog[i].client # "none"
                 /\ glog[i].fetches = 1
                 /\ blocks[b].media = glog[i].got
    /\ \A i \in 1..Len(glog) :
          NamesUnknownKind(i) =>
             /\ \A b \in 1..Len(blocks) : blocks[b].group_id = i => ~blocks[b].hasmedia
             /\ glog[i].resolved
             /\ ~glog[i].raised
             /\ glog[i].fetches = 0
             /\ ret = "raised" => i < Len(glog)

\* A finished request whose first group asked for a kind outside the seven
\* and whose second group got a photo: one media block, the second group's.
C28_Witness ==
    /\ ret = "success"
    /\ Len(glog) = 2
    /\ NamesUnknownKind(1)
    /\ glog[1].beh # NoneValue
    /\ \E b \in 1..Len(blocks) :
          /\ blocks[b].hasmedia
          /\ blocks[b].group_id = 2
          /\ blocks[b].type = "unsplash"

\* The requests of the plan's groups handed to _resolve_media so far.
Resolutions == Cardinality({i \in 1..Len(glog) : glog[i].resolved})

\* C29: a media request is resolved only in a step that starts with an
\* accepted plan in hand, the orchestrator having been called once; a request
\* whose orchestrator is unavailable or whose plan was rejected never has a
\* group resolved nor a collaborator fetch made; and the transport answers
\* an unavailable orchestrator with 503 without calling it.
C29_ResolveAfterAcceptedPlan ==
    [][/\ (glog' # glog) =>
             /\ orch = "plan" /\ orch' = "plan"
             /\ orch_calls = 1
             /\ api_clients["claude"] = "available"
       /\ (orch' # "plan" \/ api_clients'["claude"] # "available") =>
             /\ glog' = <<>>
             /\ blocks' = <<>>
             /\ Resolutions' = 0
             /\ FetchesUpTo(Len(glog))' = 0
       /\ (rpc' = "done" /\ orch' \notin {"plan", "notcalled"}) => ret' = "failure"
       /\ (entry' \in Transport /\ rpc' # "idle" /\ api_clients'["claude"] # "available"
           /\ status' \notin {400, 500}) =>
             /\ status' = 503
             /\ orch_calls' = 0
             /\ orch' = "notcalled"
       /\ (entry' = "direct" /\ api_clients'["claude"] # "available") => orch_calls' = 0]_vars

\* An initial request answered 502: the orchestrator was called and its
\* answer, a dict without groups, rejected; no group was ever looked at.
C29_Witness ==
    /\ entry = "initial"
    /\ orch = "nogroups"
    /\ ret = "failure"
    /\ status = 502
    /\ glog = <<>>

\* The request's telemetry as the generate route hands it to the sanitizer.
SentTelemetry == IF body.time_data.k = "absent" THEN TimeDataNone ELSE body.time_data

ScoreOf(clean) == compute_engagement_score(AsTimeData(clean.value)).score

\* C30: a generate request answered 200 reports the score of its sanitized
\* telemetry and the strategy select_strategy gives for that score, and
\* sanitizing the sanitized telemetry again gives the same score; an initial
\* request answered 200 reports "deeper".
C30_ScoreAndStrategyReported ==
    (entry \in Transport /\ ret = "success" /\ status = 200) =>
        IF entry = "generate"
        THEN LET once == sanitize_time_data(SentTelemetry)
                 twice == sanitize_time_data(AsTimeData(once.value))
             IN  /\ ~once.raised /\ ~twice.raised
                 /\ Result.engagement_score = ScoreOf(once)
                 /\ Result.strategy_used = select_strategy(Result.engagement_score)
                 /\ Result.strategy_used \in VALID_STRATEGIES
                 /\ ScoreOf(twice) = ScoreOf(once)
                 /\ twice.value = once.value
                 /\ body.time_data = EngagedTelemetry =>
                       /\ Result.strategy_used = "deeper"
                       /\ AtLeastHundredths(Result.engagement_score, 65)
        ELSE Result.strategy_used = "deeper"

\* A generate request with moderate telemetry answered 200 with the
\* strategy "branch".
C30_Witness ==
    /\ entry = "generate"
    /\ status = 200
    /\ ret = "success"
    /\ body.time_data = ModerateTelemetry
    /\ Result.strategy_used = "branch"

(***************************************************************************)
(* Claims about the meme catalog (checked under SpecMemes)                 *)
(***************************************************************************)

\* C27: the catalog is initialized lazily and safely under concurrent
\* requests: the cache holds nothing or a list a fetch returned whole; a
\* fetch that fails leaves it as it was; once it holds a non-empty catalog
\* no further fetch replaces it (at most one populating fetch), and a call
\* that finds it returns that catalog without fetching.
C27_SafeLazyCatalog ==
    [][/\ memes_cache' \in {NoCatalog} \cup FetchedCatalogs
       /\ \A t \in Threads :
             (call_in[t].pc = "fetch" /\ call_in'[t].pc = "idle") =>
                memes_cache' = memes_cache
       /\ HasCatalog(memes_cache) => memes_cache' = memes_cache
       /\ \A t \in Threads :
             (/\ call_in[t].pc = "return" /\ call_in'[t].pc = "idle"
              /\ HasCatalog(call_in[t].seen))
             => /\ call_out'[t].result = call_in[t].seen
                /\ ~call_out'[t].fetch]_vars

====
